---- MODULE Spec2Model ----
(***************************************************************************)
(* Model of github.com/mitranim/rd: the key-set scanner (parseSet), the    *)
(* scalar and sequence parsers (Parse, ParseSlice), the field resolver     *)
(* (jsonFields) and the record decoders (Form.Decode, Json.Decode).        *)
(*                                                                         *)
(* Text is modelled as a sequence of one-character strings, so that the    *)
(* scanners and converters work byte by byte as the code does.  Cursors    *)
(* and field offsets are 0-based as in the source; the TLA+ sequences      *)
(* that hold the bytes are 1-based, hence the "+ 1" at every access.       *)
(***************************************************************************)
EXTENDS Integers, Sequences, FiniteSets, TLC

VARIABLES
    src,    \* par.src: the text being scanned
    cur,    \* par.cur: the cursor
    lvl,    \* par.lvl: the nesting level
    out,    \* par.out: the keys collected so far
    stack,  \* the open obj()/arr() calls, innermost last, each with its mode
    spc,    \* position of the scan: "top", "run", "done", "panic"
    wf      \* what the input was rendered from: [kind, keys]

scanVars == <<src, cur, lvl, out, stack, spc, wf>>

VARIABLES
    call,   \* the entry point under test: "Parse" or "ParseSlice"
    typ,    \* the name of the destination's type
    input,  \* the token (Parse) or the token list (ParseSlice)
    cell,   \* the destination cell
    cell0,  \* the destination cell before the call
    err,    \* the error returned, "nil" for none
    ppc,    \* position of the call: "call", "done"
    orig    \* the number the token was formatted from, 0 when from none

parseVars == <<call, typ, input, cell, cell0, err, ppc, orig>>

VARIABLES
    form,   \* the keyed source (rd.Form): a map from key to token list
    json,   \* the members of the JSON source's top-level object
    dst,    \* the destination record
    dst0,   \* the destination record before the decode
    idx,    \* the next resolved field of Form.Decode's loop, from 1
    derr,   \* the error returned by the decode, "nil" for none
    dpc     \* position of the decode: "start", "loop", "done"

decVars == <<form, json, dst, dst0, idx, derr, dpc>>

VARIABLES
    recFields,       \* the fields of the record type Rec being resolved
    jsonFieldCache,  \* the entry of Rec in jsonFieldCache: [ok, val]
    pcs,     \* per caller of loadJsonFields: "load", "fields", "store", "done"
    idxs,    \* per caller: the next field of the loop of jsonFields
    outs,    \* per caller: the list jsonFields has built so far
    rets     \* per caller: the list loadJsonFields returned

cacheVars == <<recFields, jsonFieldCache, pcs, idxs, outs, rets>>

VARIABLES
    hop,    \* the membership query under test: "Has" or "Set"
    hkey,   \* the key Form.Has is asked for
    hok,    \* what Form.Has returned
    hset,   \* the set Form.Set has built so far
    hpc     \* position of the query: "call", "range", "done"

hasVars == <<hop, hkey, hok, hset, hpc>>

vars == <<scanVars, parseVars, decVars, cacheVars, hasVars>>

(***************************************************************************)
(* The parts of the state a specification does not use stay at rest.       *)
(***************************************************************************)
ScanIdle ==
    /\ src = <<>> /\ cur = 0 /\ lvl = 0 /\ out = {} /\ stack = <<>>
    /\ spc = "done" /\ wf = [kind |-> "none", keys |-> {}]

ParseIdle ==
    /\ call = "none" /\ typ = "none" /\ input = <<>> /\ cell = 0
    /\ cell0 = 0 /\ err = "nil" /\ ppc = "done" /\ orig = 0

DecodeIdle ==
    /\ form = <<>> /\ json = <<>> /\ dst = <<>> /\ dst0 = <<>>
    /\ idx = 0 /\ derr = "nil" /\ dpc = "done"

CacheIdle ==
    /\ recFields = <<>> /\ jsonFieldCache = [ok |-> FALSE, val |-> <<>>]
    /\ pcs = <<>> /\ idxs = <<>> /\ outs = <<>> /\ rets = <<>>

HasIdle ==
    /\ hop = "none" /\ hkey = <<>> /\ hok = FALSE /\ hset = {}
    /\ hpc = "done"

(***************************************************************************)
(* Bounds.                                                                 *)
(***************************************************************************)
\* Keys of a generated keyed source.
MaxKeys == 2
\* Length of the generated tokens.
MaxTokLen == 4
\* Length of the generated token lists.
MaxListLen == 2
\* Nesting depth of the values of a generated document's members.
MaxDepth == 2
\* How far beyond an integer kind's range the generated numbers go.
MaxOver == 300
\* Members of a generated top-level object.
MaxMembers == 2
\* Fields of a generated record type.
MaxFields == 2
\* Concurrent callers of loadJsonFields.
MaxCallers == 2
\* Tokens of a raw source after the brace that opens its object.
MaxToks == 5
\* Tokens of a raw source after a first significant byte that is no brace.
MaxTail == 1
\* Bytes after the opening quote of a raw key.
MaxStr == 3
\* Bytes of a raw source from the first byte of a member's value on.
MaxNum == 4
\* Bytes of an arbitrary source after its head.
MaxSrc == 3
\* Calls of appendJsonFields a goroutine's stack has room for.
MaxStack == 5

(***************************************************************************)
(* Charset tables.                                                         *)
(***************************************************************************)
Quote == "\""
Backslash == "\\"

digits == {"0", "1", "2", "3", "4", "5", "6", "7", "8", "9"}
\* The vertical tab has no TLA+ escape: the byte 0x0B is written "VT".
VTab == "VT"
whitespace == {"\r", "\n", "\t", VTab, " "}
delims == whitespace \cup {"{", "}", "[", "]", Quote, ","}
exps == {"E", "e"}
signs == {"+", "-"}

(***************************************************************************)
(* The scanner's helpers.  A helper that scans returns the new cursor, or, *)
(* when the code panics, a negative number that keeps the cursor the panic *)
(* left: PanicAt(c).                                                       *)
(***************************************************************************)
PanicAt(c) == 0 - (c + 1)

Panicked(r) == r < 0

PanicCur(r) == 0 - (r + 1)

more(c) == c < Len(src)

\* The byte under cursor c; peek() panics at the end of input.
peek(c) == IF more(c) THEN src[c + 1] ELSE "EOF"

RECURSIVE next(_)
next(c) ==
    IF c < Len(src) /\ src[c + 1] \in whitespace THEN next(c + 1) ELSE c

\* utf8.DecodeRuneInString: every byte of the model is ASCII, of size 1.
skipChar(c) == c + 1

\* esc() leaving the byte after the backslash to the string's loop.
escNoSkip(c) == c

\* esc() is skip(): self.cur++, whatever the byte and wherever the end.
esc(c) == c + 1

RECURSIVE str(_)
str(c) ==
    IF ~more(c) THEN PanicAt(c)
    ELSE IF peek(c) = Quote THEN c + 1
    ELSE IF peek(c) = Backslash THEN str(esc(c + 1))
    ELSE str(skipChar(c))

RECURSIVE numExpRest(_)
numExpRest(c) ==
    IF ~more(c) THEN c
    ELSE IF peek(c) \in delims THEN c
    ELSE IF peek(c) \in digits THEN numExpRest(c + 1)
    ELSE PanicAt(c)

numExp(c) ==
    LET c1 == IF ~more(c) THEN PanicAt(c)
              ELSE IF peek(c) \in signs THEN c + 1 ELSE c
    IN  IF Panicked(c1) THEN c1
        ELSE IF ~more(c1) THEN PanicAt(c1)
        ELSE IF peek(c1) \notin digits THEN PanicAt(c1)
        ELSE numExpRest(c1 + 1)

RECURSIVE numMantRest(_)
numMantRest(c) ==
    IF ~more(c) THEN c
    ELSE IF peek(c) \in delims THEN c
    ELSE IF peek(c) \in digits THEN numMantRest(c + 1)
    ELSE IF peek(c) \in exps THEN numExp(c + 1)
    ELSE PanicAt(c)

numMant(c) ==
    IF ~more(c) THEN PanicAt(c)
    ELSE IF peek(c) \notin digits THEN PanicAt(c)
    ELSE numMantRest(c + 1)

RECURSIVE num(_)
num(c) ==
    IF ~more(c) THEN c
    ELSE IF peek(c) \in delims THEN c
    ELSE IF peek(c) \in digits THEN num(c + 1)
    ELSE IF peek(c) = "." THEN numMant(c + 1)
    ELSE IF peek(c) \in exps THEN numExp(c + 1)
    ELSE PanicAt(c)

\* beforeNum() taking any byte after the '-'.
beforeNumLoose(c) ==
    IF ~more(c) THEN PanicAt(c) ELSE num(c)

beforeNum(c) ==
    IF ~more(c) THEN PanicAt(c)
    ELSE IF peek(c) \notin digits THEN PanicAt(c)
    ELSE num(c + 1)

\* strings.HasPrefix(self.rest(), prefix)
HasPrefix(c, prefix) ==
    /\ c + Len(prefix) <= Len(src)
    /\ \A i \in 1..Len(prefix) : src[c + i] = prefix[i]

ident(c, prefix) ==
    IF HasPrefix(c, prefix)
    THEN LET c1 == c + Len(prefix)
         IN  IF ~more(c1) \/ peek(c1) \in delims THEN c1 ELSE PanicAt(c1)
    ELSE PanicAt(c)

\* self.src[pos : end]
Slice(pos, end) == SubSeq(src, pos + 1, end)

(***************************************************************************)
(* The scanner's state machine.  A frame of the stack is one running       *)
(* obj() or arr() call with the mode its loop is in.  The caller of any()  *)
(* moves to its next mode when any() returns, whatever the value was, so   *)
(* the caller's frame takes that mode when the nested call is pushed.      *)
(***************************************************************************)
Frame(fn, mode) == [fn |-> fn, mode |-> mode]

Top == stack[Len(stack)]

SetMode(mode) == [stack EXCEPT ![Len(stack)] = Frame(Top.fn, mode)]

Pop == SubSeq(stack, 1, Len(stack) - 1)

\* The outcome of one step: the five fields an action assigns.
St(c, l, o, s, p) == [cur |-> c, lvl |-> l, out |-> o, stack |-> s, spc |-> p]

Fail(c) == St(c, lvl, out, stack, "panic")

\* A scalar was consumed up to c (or the scan panicked); the loop goes on.
Scalar(c, c0, mode) ==
    IF Panicked(c) THEN Fail(PanicCur(c))
    ELSE St(c, lvl, out, SetMode(mode), "run")

\* Entering obj() or arr() without the self.lvl++.
EnterFlat(c, fn, first, mode) ==
    St(c, lvl, out, Append(SetMode(mode), Frame(fn, first)), "run")

\* Entering obj() or arr(): self.lvl++ and the loop's first mode.
Enter(c, fn, first, mode) ==
    St(c, lvl + 1, out, Append(SetMode(mode), Frame(fn, first)), "run")

\* Leaving obj() or arr(): self.lvl-- and return to the caller.
Leave(c) ==
    St(c, lvl - 1, out, Pop, IF Len(stack) = 1 THEN "done" ELSE "run")

\* any(), called with the cursor on a significant byte; mode is the
\* caller's mode after the value.
any(c, mode) ==
    LET char == peek(c)
    IN  IF char \in digits THEN Scalar(num(c + 1), c, mode)
        ELSE IF char = "{" THEN Enter(c + 1, "obj", "beforeKey", mode)
        ELSE IF char = "[" THEN Enter(c + 1, "arr", "beforeVal", mode)
        ELSE IF char = Quote THEN Scalar(str(c + 1), c, mode)
        ELSE IF char = "n" THEN Scalar(ident(c + 1, <<"u", "l", "l">>), c, mode)
        ELSE IF char = "t" THEN Scalar(ident(c + 1, <<"r", "u", "e">>), c, mode)
        ELSE IF char = "f"
             THEN Scalar(ident(c + 1, <<"a", "l", "s", "e">>), c, mode)
        ELSE IF char = "-" THEN Scalar(beforeNum(c + 1), c, mode)
        ELSE Fail(c)

\* key() recording the keys of every level.
keyAnyLevel(c) ==
    LET pos == c
        end == str(c)
    IN  IF Panicked(end) THEN Fail(PanicCur(end))
        ELSE St(end, lvl, out \cup {Slice(pos, end - 1)},
                SetMode("afterKey"), "run")

\* key(): scan the string and record it when the level is 1.
key(c) ==
    LET pos == c
        end == str(c)
    IN  IF Panicked(end) THEN Fail(PanicCur(end))
        ELSE St(end, lvl,
                IF lvl = 1 THEN out \cup {Slice(pos, end - 1)} ELSE out,
                SetMode("afterKey"), "run")

\* obj() taking a closing brace after a comma.
objTrailingComma(c) ==
    LET char == peek(c)
        mode == Top.mode
    IN  CASE mode = "beforeKey" ->
               IF char = "}" THEN Leave(c + 1)
               ELSE IF char = Quote THEN key(c + 1)
               ELSE Fail(c)
          [] mode = "afterKey" ->
               IF char = ":"
               THEN St(c + 1, lvl, out, SetMode("afterColon"), "run")
               ELSE Fail(c)
          [] mode = "afterColon" -> any(c, "afterValue")
          [] mode = "afterValue" ->
               IF char = "}" THEN Leave(c + 1)
               ELSE IF char = ","
               THEN St(c + 1, lvl, out, SetMode("afterComma"), "run")
               ELSE Fail(c)
          [] mode = "afterComma" ->
               IF char = Quote \/ char = "}"
               THEN St(c, lvl, out, SetMode("beforeKey"), "run")
               ELSE Fail(c)

\* One iteration of obj()'s loop, the cursor c on a significant byte.
obj(c) ==
    LET char == peek(c)
        mode == Top.mode
    IN  CASE mode = "beforeKey" ->
               IF char = "}" THEN Leave(c + 1)
               ELSE IF char = Quote THEN key(c + 1)
               ELSE Fail(c)
          [] mode = "afterKey" ->
               IF char = ":"
               THEN St(c + 1, lvl, out, SetMode("afterColon"), "run")
               ELSE Fail(c)
          [] mode = "afterColon" -> any(c, "afterValue")
          [] mode = "afterValue" ->
               IF char = "}" THEN Leave(c + 1)
               ELSE IF char = ","
               THEN St(c + 1, lvl, out, SetMode("afterComma"), "run")
               ELSE Fail(c)
          [] mode = "afterComma" ->
               IF char = Quote
               THEN St(c, lvl, out, SetMode("beforeKey"), "run")
               ELSE Fail(c)

\* One iteration of arr()'s loop, the cursor c on a significant byte.
arr(c) ==
    LET char == peek(c)
        mode == Top.mode
    IN  CASE mode = "beforeVal" ->
               IF char = "]" THEN Leave(c + 1) ELSE any(c, "afterVal")
          [] mode = "afterVal" ->
               IF char = "]" THEN Leave(c + 1)
               ELSE IF char = ","
               THEN St(c + 1, lvl, out, SetMode("afterComma"), "run")
               ELSE Fail(c)
          [] mode = "afterComma" -> any(c, "afterVal")

\* top() entering obj() on any first significant byte.
topAnyByte ==
    LET c == next(cur)
    IN  IF more(c)
        THEN St(c + 1, lvl + 1, out, <<Frame("obj", "beforeKey")>>, "run")
        ELSE St(c, lvl, out, stack, "done")

\* top() stepping over a first significant byte that is no brace.
topSkipFirst ==
    LET c == next(cur)
    IN  IF more(c) /\ peek(c) = "{"
        THEN St(c + 1, lvl + 1, out, <<Frame("obj", "beforeKey")>>, "run")
        ELSE IF more(c) THEN St(c + 1, lvl, out, stack, "done")
        ELSE St(c, lvl, out, stack, "done")

\* top() refusing a first significant byte that is no brace.
topBraceOnly ==
    LET c == next(cur)
    IN  IF more(c) /\ peek(c) = "{"
        THEN St(c + 1, lvl + 1, out, <<Frame("obj", "beforeKey")>>, "run")
        ELSE IF more(c) THEN Fail(c)
        ELSE St(c, lvl, out, stack, "done")

\* top(): only a '{' as the first significant byte starts a scan.
top ==
    LET c == next(cur)
    IN  IF more(c) /\ peek(c) = "{"
        THEN St(c + 1, lvl + 1, out, <<Frame("obj", "beforeKey")>>, "run")
        ELSE St(c, lvl, out, stack, "done")

\* The loop of obj() and arr() going on at the end of input.
loopSpin ==
    LET c == next(cur)
    IN  IF ~more(c) THEN St(c, lvl, out, stack, "run")
        ELSE IF Top.fn = "obj" THEN obj(c) ELSE arr(c)

\* The loop header `for self.next()` of obj() and arr(), then the body;
\* the loop ending at the end of input is panic(errJsonEof).
loop ==
    LET c == next(cur)
    IN  IF ~more(c) THEN Fail(c)
        ELSE IF Top.fn = "obj" THEN obj(c) ELSE arr(c)

Assign(st) ==
    /\ cur' = st.cur
    /\ lvl' = st.lvl
    /\ out' = st.out
    /\ stack' = st.stack
    /\ spc' = st.spc
    /\ UNCHANGED <<src, wf>>
    /\ UNCHANGED <<parseVars, decVars, cacheVars, hasVars>>

ScanTop == spc = "top" /\ Assign(top)

ScanObj == spc = "run" /\ Top.fn = "obj" /\ Assign(loop)

ScanArr == spc = "run" /\ Top.fn = "arr" /\ Assign(loop)

(***************************************************************************)
(* Inputs of the scanner: JSON documents as trees, rendered to text.       *)
(***************************************************************************)
Lit(s) == [t |-> "lit", s |-> s, k |-> <<>>, e |-> <<>>]
Arr(e) == [t |-> "arr", s |-> <<>>, k |-> <<>>, e |-> e]
Obj(k, e) == [t |-> "obj", s |-> <<>>, k |-> k, e |-> e]

\* The text of a member list or element list, ws around every token.
RECURSIVE Render(_, _)
RECURSIVE RenderItems(_, _, _)
RenderItems(d, i, ws) ==
    IF i > Len(d.e) THEN <<>>
    ELSE (IF i > 1 THEN <<",">> \o ws ELSE <<>>)
         \o (IF d.t = "obj"
             THEN <<Quote>> \o d.k[i] \o <<Quote>> \o ws \o <<":">> \o ws
             ELSE <<>>)
         \o Render(d.e[i], ws) \o ws
         \o RenderItems(d, i + 1, ws)

Render(d, ws) ==
    CASE d.t = "lit" -> d.s
      [] d.t = "arr" -> <<"[">> \o ws \o RenderItems(d, 1, ws) \o <<"]">>
      [] d.t = "obj" -> <<"{">> \o ws \o RenderItems(d, 1, ws) \o <<"}">>

RenderDoc(d, ws) == ws \o Render(d, ws) \o ws

\* The key names of an object's immediate members.
KeySet(d) == {d.k[i] : i \in 1..Len(d.k)}

\* Numbers in the formats of the JSON grammar.
Numbers ==
    { <<"0">>, <<"-", "0">>, <<"1", "2">>, <<"-", "1", ".", "2">>,
      <<"1", "2", ".", "3", "4">>, <<"1", ".", "2", "E", "3">>,
      <<"1", "e", "3", "4">>, <<"1", ".", "2", "e", "+", "3">>,
      <<"-", "1", ".", "2", "3", "E", "-", "4", "5">> }

\* Strings, quotes included: plain, empty, escaped quote, escaped
\* backslash, structural bytes, and one spelled like a key.
Strings ==
    { <<Quote, "s", Quote>>, <<Quote, Quote>>,
      <<Quote, Backslash, Quote, Quote>>,
      <<Quote, "a", Backslash, Backslash, Quote>>,
      <<Quote, "{", ":", "}", Quote>>,
      <<Quote, "[", ",", "]", Quote>>,
      <<Quote, "o", "n", "e", Quote>> }

Idents ==
    { <<"n", "u", "l", "l">>, <<"t", "r", "u", "e">>,
      <<"f", "a", "l", "s", "e">> }

Scalars == {Lit(s) : s \in Numbers \cup Strings \cup Idents}

\* The scalars that fill nested values.
NestScalars == {Lit(<<"1", "0">>), Lit(<<Quote, "o", "n", "e", Quote>>),
                Lit(<<"n", "u", "l", "l">>)}

\* Key names as written between the quotes, escapes included.
TopKeys ==
    { <<"o", "n", "e">>, <<"t", "w", "o">>,
      <<"o", "n", "e", Backslash, Backslash, "t", "w", "o">>,
      <<Backslash, Quote>>, <<>> }

\* The values nested to depth d at most.
RECURSIVE Values(_)
Values(d) ==
    IF d = 0 THEN NestScalars
    ELSE LET V == Values(d - 1)
         IN  V \cup {Arr(<<>>), Obj(<<>>, <<>>)}
               \cup {Arr(<<x>>) : x \in V}
               \cup {Arr(<<x, Lit(<<"1", "0">>)>>) : x \in V}
               \cup {Obj(<<<<"s", "i", "x">>>>, <<x>>) : x \in V}

MemberValues == Scalars \cup Values(MaxDepth)

\* What the members after the first are drawn from.
MoreKeys == { <<"o", "n", "e">>, <<"t", "w", "o">> }
MoreValues == {Lit(<<"n", "u", "l", "l">>),
               Obj(<<<<"t", "w", "o">>>>, <<Lit(<<Quote, "s", Quote>>)>>)}

\* Top-level objects of n members.
RECURSIVE Objects(_)
Objects(n) ==
    IF n = 0 THEN {Obj(<<>>, <<>>)}
    ELSE IF n = 1 THEN {Obj(<<k>>, <<x>>) : k \in TopKeys, x \in MemberValues}
    ELSE {Obj(Append(o.k, k), Append(o.e, x)) :
              o \in Objects(n - 1), k \in MoreKeys, x \in MoreValues}

ObjectDocs == UNION {Objects(n) : n \in 0..MaxMembers}

\* Documents whose top-level value is not an object.
OtherDocs == Scalars \cup {d \in Values(MaxDepth) : d.t # "obj"}

Spacings == { <<>>, <<" ", "\n">> }

ScanInputs ==
    {[src |-> RenderDoc(d, ws), kind |-> d.t, keys |-> KeySet(d)] :
        d \in ObjectDocs \cup OtherDocs, ws \in Spacings}
    \cup {[src |-> ws, kind |-> "blank", keys |-> {}] :
            ws \in {<<>>, <<" ">>, <<" ", "\n", "\r", "\t", VTab>>}}

ScanInit ==
    /\ \E in \in ScanInputs :
         /\ src = in.src
         /\ wf = [kind |-> in.kind, keys |-> in.keys]
    /\ cur = 0
    /\ lvl = 0
    /\ out = {}
    /\ stack = <<>>
    /\ spc = "top"
    /\ ParseIdle
    /\ DecodeIdle
    /\ CacheIdle
    /\ HasIdle

ScanNext == ScanTop \/ ScanObj \/ ScanArr

SpecScan == ScanInit /\ [][ScanNext]_vars

(***************************************************************************)
(* Raw sources: any sequence of tokens, well-formed or not.                *)
(***************************************************************************)
\* The tokens a raw source is made of inside its object.
ObjTokens ==
    { <<"{">>, <<"}">>, <<":">>, <<",">>, <<"1">>, <<Quote, "a", Quote>> }

\* The tokens that follow a first significant byte that is no brace.
TailTokens == ObjTokens \cup { <<"[">>, <<"]">>, <<" ", "x">> }

\* All concatenations of n tokens at most.
RECURSIVE TokenTexts(_, _)
TokenTexts(tokens, n) ==
    IF n = 0 THEN {<<>>}
    ELSE LET S == TokenTexts(tokens, n - 1)
         IN  S \cup {s \o tok : s \in S, tok \in tokens}

\* First significant bytes other than the brace.
OtherFirst == {"x", "1", Quote, "[", "]", "}", ":", ",", "n", "-"}

\* The bytes that follow the opening quote of a raw key: a byte of no
\* meaning, the backslash and the quote, in every order.
StrBytes == { <<"a">>, <<Backslash>>, <<Quote>> }

\* What follows a raw key: nothing, or the rest of a member.
KeyRests == { <<>>, <<Quote, ":", "1", "}">> }

RawInputs ==
    {[src |-> <<"{">> \o s, kind |-> "rawobj"] :
        s \in TokenTexts(ObjTokens, MaxToks)}
    \cup {[src |-> <<"{", Quote>> \o s \o rest, kind |-> "rawkey"] :
            s \in TokenTexts(StrBytes, MaxStr), rest \in KeyRests}
    \cup {[src |-> ws \o <<ch>> \o s, kind |-> "raw"] :
            ws \in {<<>>, <<" ">>, <<"\n", " ">>}, ch \in OtherFirst,
            s \in TokenTexts(TailTokens, MaxTail)}

RawInit ==
    /\ \E in \in RawInputs :
         /\ src = in.src
         /\ wf = [kind |-> in.kind, keys |-> {}]
    /\ cur = 0
    /\ lvl = 0
    /\ out = {}
    /\ stack = <<>>
    /\ spc = "top"
    /\ ParseIdle
    /\ DecodeIdle
    /\ CacheIdle
    /\ HasIdle

\* No array is reached: a bracket stands only in a source the scan of
\* which ends in top().
RawNext == ScanTop \/ ScanObj

SpecRaw == RawInit /\ [][RawNext]_vars

(***************************************************************************)
(* Raw values: a member's value of any bytes, a number or not.             *)
(***************************************************************************)
\* The bytes a raw value is made of: digits, the signs, the point, an
\* exponent marker, a delimiter, and a byte that is none of these.
NumBytes == {"0", "1", "-", "+", ".", "e", ",", "x"}

\* What stands before a raw value: the object's brace, a key, the colon.
NumHead == <<"{", Quote, "a", Quote, ":">>

LexInit ==
    /\ \E n \in 0..MaxNum : \E s \in [1..n -> NumBytes] :
         src = NumHead \o s
    /\ wf = [kind |-> "rawnum", keys |-> {}]
    /\ cur = 0
    /\ lvl = 0
    /\ out = {}
    /\ stack = <<>>
    /\ spc = "top"
    /\ ParseIdle
    /\ DecodeIdle
    /\ CacheIdle
    /\ HasIdle

LexNext == ScanTop \/ ScanObj

SpecLex == LexInit /\ [][LexNext]_vars

(***************************************************************************)
(* Arbitrary sources: every byte string over the bytes the scanner tells   *)
(* apart, behind the head of an object, of a member, or of an array.       *)
(***************************************************************************)
SrcBytes == {"[", "]", "}", Quote, Backslash, ",", ":", "1", " "}

SrcHeads ==
    { <<"{">>, <<"{", Quote, Quote, ":">>, <<"{", Quote, Quote, ":", "[">> }

TermInit ==
    /\ \E h \in SrcHeads : \E n \in 0..MaxSrc : \E s \in [1..n -> SrcBytes] :
         src = h \o s
    /\ wf = [kind |-> "bytes", keys |-> {}]
    /\ cur = 0
    /\ lvl = 0
    /\ out = {}
    /\ stack = <<>>
    /\ spc = "top"
    /\ ParseIdle
    /\ DecodeIdle
    /\ CacheIdle
    /\ HasIdle

TermNext == ScanTop \/ ScanObj \/ ScanArr

\* parseSet runs on one goroutine with nothing to wait for: a step that
\* can be taken is taken.
SpecTerm == TermInit /\ [][TermNext]_vars /\ WF_vars(TermNext)

(***************************************************************************)
(* Types.  A type is known by its name; its descriptor gives what the      *)
(* code reads through reflection: the kind, the size in bits (of the      *)
(* numeric kinds, 0 otherwise), the element type, the fields of a struct,  *)
(* and the interfaces its pointer implements (caps).  A struct field       *)
(* keeps its Go name, its PkgPath ("" when exported), the value of its     *)
(* `json` tag, whether it is anonymous, and the name of its type.          *)
(***************************************************************************)
Desc(kind, bits, elem, fields) ==
    [kind |-> kind, bits |-> bits, elem |-> elem, fields |-> fields,
     caps |-> {}]

\* A type whose pointer implements the interfaces caps, among "Parser",
\* "TextUnmarshaler" and "SliceParser".
Custom(kind, elem, caps) ==
    [kind |-> kind, bits |-> 0, elem |-> elem, fields |-> <<>>,
     caps |-> caps]

StructField(name, pkgPath, tag, anonymous, type) ==
    [Name |-> name, PkgPath |-> pkgPath, Tag |-> tag,
     Anonymous |-> anonymous, Type |-> type]

\* Tags and external names, as text.
NameVal == <<"v", "a", "l">>
NamePtr == <<"p", "t", "r">>
NameSeq == <<"s", "e", "q">>
NameNum == <<"n", "u", "m">>
NameStr == <<"s", "t", "r">>
NameNop == <<"n", "o", "p">>
NamePrivate == <<"p", "r", "i", "v">>
NameDash == <<"-">>
NameMid == <<"m", "i", "d">>
NameEmb == <<"e", "m", "b">>
NameTime == <<"t", "i", "m", "e">>
NameStamp == <<"s", "t", "a", "m", "p">>
NameList == <<"l", "i", "s", "t">>

\* type Embed struct { Num int8 `json:"num"`; Str string `json:"str"` }
EmbedFields ==
    << StructField("Num", "", NameNum, FALSE, "int8"),
       StructField("Str", "", NameStr, FALSE, "string") >>

\* type Tar struct {
\*     *Embed
\*     Val      int8   `json:"val"`
\*     Ptr      *int8  `json:"ptr,omitempty"`
\*     Seq      []int8 `json:"seq"`
\*     Untagged int8
\*     Dash     int8   `json:"-"`
\*     private  int8   `json:"priv"`
\* }
TarFields ==
    << StructField("Embed", "", <<>>, TRUE, "*Embed"),
       StructField("Val", "", NameVal, FALSE, "int8"),
       StructField("Ptr", "", NamePtr \o <<",", "o">>, FALSE, "*int8"),
       StructField("Seq", "", NameSeq, FALSE, "[]int8"),
       StructField("Untagged", "", <<>>, FALSE, "int8"),
       StructField("Dash", "", NameDash, FALSE, "int8"),
       StructField("private", "rd", NamePrivate, FALSE, "int8") >>

\* type Mid struct { *Embed; Mid int8 `json:"mid"` }
MidFields ==
    << StructField("Embed", "", <<>>, TRUE, "*Embed"),
       StructField("Mid", "", NameMid, FALSE, "int8") >>

\* A type that embeds a pointer to itself, and two that embed each other:
\* type Loop struct { *Loop; Val int8 `json:"val"` }
\* type Ping struct { *Pong; Val int8 `json:"val"` }
\* type Pong struct { *Ping }
LoopFields ==
    << StructField("Loop", "", <<>>, TRUE, "*Loop"),
       StructField("Val", "", NameVal, FALSE, "int8") >>

PingFields ==
    << StructField("Pong", "", <<>>, TRUE, "*Pong"),
       StructField("Val", "", NameVal, FALSE, "int8") >>

PongFields == << StructField("Ping", "", <<>>, TRUE, "*Ping") >>

\* A record with one field of each conversion capability:
\* type Caps struct {
\*     Val   int8              `json:"val"`
\*     Time  TimeParser        `json:"time"`
\*     Stamp time.Time         `json:"stamp"`
\*     List  SliceParserStruct `json:"list"`
\* }
CapsFields ==
    << StructField("Val", "", NameVal, FALSE, "int8"),
       StructField("Time", "", NameTime, FALSE, "TimeParser"),
       StructField("Stamp", "", NameStamp, FALSE, "Time"),
       StructField("List", "", NameList, FALSE, "SliceParserStruct") >>

TypeNames ==
    {"int8", "uint8", "int16", "uint16", "bool", "string", "[]byte",
     "*int8", "[]int8",
     "[]*int8", "[]string", "[]bool", "Embed", "*Embed", "Tar", "Mid",
     "TimeParser", "Time", "ParserText", "SliceParserStruct",
     "SliceParserList", "Caps", "Loop", "*Loop", "Ping", "*Ping", "Pong",
     "*Pong"}

T(name) ==
    CASE name = "int8" -> Desc("int", 8, "", <<>>)
      [] name = "uint8" -> Desc("uint", 8, "", <<>>)
      [] name = "int16" -> Desc("int", 16, "", <<>>)
      [] name = "uint16" -> Desc("uint", 16, "", <<>>)
      [] name = "bool" -> Desc("bool", 0, "", <<>>)
      [] name = "string" -> Desc("string", 0, "", <<>>)
      [] name = "[]byte" -> Desc("slice", 0, "uint8", <<>>)
      [] name = "*int8" -> Desc("ptr", 0, "int8", <<>>)
      [] name = "[]int8" -> Desc("slice", 0, "int8", <<>>)
      [] name = "[]*int8" -> Desc("slice", 0, "*int8", <<>>)
      [] name = "[]string" -> Desc("slice", 0, "string", <<>>)
      [] name = "[]bool" -> Desc("slice", 0, "bool", <<>>)
      [] name = "Embed" -> Desc("struct", 0, "", EmbedFields)
      [] name = "*Embed" -> Desc("ptr", 0, "Embed", <<>>)
      [] name = "Tar" -> Desc("struct", 0, "", TarFields)
      [] name = "Mid" -> Desc("struct", 0, "", MidFields)
      [] name = "Caps" -> Desc("struct", 0, "", CapsFields)
      [] name = "Loop" -> Desc("struct", 0, "", LoopFields)
      [] name = "*Loop" -> Desc("ptr", 0, "Loop", <<>>)
      [] name = "Ping" -> Desc("struct", 0, "", PingFields)
      [] name = "*Ping" -> Desc("ptr", 0, "Ping", <<>>)
      [] name = "Pong" -> Desc("struct", 0, "", PongFields)
      [] name = "*Pong" -> Desc("ptr", 0, "Pong", <<>>)
      [] name = "TimeParser" -> Custom("struct", "", {"Parser"})
      [] name = "Time" -> Custom("struct", "", {"TextUnmarshaler"})
      [] name = "ParserText" ->
           Custom("string", "", {"Parser", "TextUnmarshaler"})
      [] name = "SliceParserStruct" -> Custom("struct", "", {"SliceParser"})
      [] name = "SliceParserList" -> Custom("slice", "int8", {"SliceParser"})

Kind(t) == T(t).kind

typeBits(t) == T(t).bits

\* typ.ConvertibleTo(typeBytes)
ConvertibleToBytes(t) == Kind(t) = "slice" /\ T(t).elem = "uint8"

(***************************************************************************)
(* Values.  An integer is an integer, a bool a BOOLEAN, a string its       *)
(* bytes; a pointer is <<>> when nil and <<v>> when it points to v; a      *)
(* slice keeps nil apart from empty; a struct is the tuple of its fields.  *)
(* A value of a type with methods of its own is what the methods keep      *)
(* (val: the text of a TimeParser, a Time or a ParserText, the Inner of a  *)
(* SliceParserStruct) with the calls made on it (log: method and input).   *)
(***************************************************************************)
NilPtr == <<>>
NilSlice == [isnil |-> TRUE, elems |-> <<>>]
MakeSlice(elems) == [isnil |-> FALSE, elems |-> elems]

\* r.Zero(typ)
RECURSIVE Zero(_)
Zero(t) ==
    IF "SliceParser" \in T(t).caps THEN [log |-> <<>>, val |-> NilSlice]
    ELSE IF T(t).caps # {} THEN [log |-> <<>>, val |-> <<>>]
    ELSE CASE Kind(t) \in {"int", "uint"} -> 0
           [] Kind(t) = "bool" -> FALSE
           [] Kind(t) = "string" -> <<>>
           [] Kind(t) = "ptr" -> NilPtr
           [] Kind(t) = "slice" -> NilSlice
           [] Kind(t) = "struct" ->
                [i \in 1..Len(T(t).fields) |-> Zero(T(t).fields[i].Type)]

\* A token list: []string, nil or not.
NilList == [isnil |-> TRUE, elems |-> <<>>]
List(elems) == [isnil |-> FALSE, elems |-> elems]

(***************************************************************************)
(* strconv.ParseUint(s, 10, bitSize) and strconv.ParseInt(s, 10, bitSize): *)
(* the value and the error, "nil", "syntax" or "range".                    *)
(***************************************************************************)
Res(val, e) == [val |-> val, err |-> e]

DigitVal(ch) ==
    CASE ch = "0" -> 0 [] ch = "1" -> 1 [] ch = "2" -> 2 [] ch = "3" -> 3
      [] ch = "4" -> 4 [] ch = "5" -> 5 [] ch = "6" -> 6 [] ch = "7" -> 7
      [] ch = "8" -> 8 [] ch = "9" -> 9

Pow2(n) == 2 ^ n

\* The digit loop of ParseUint: n is the value so far, i the next byte.
RECURSIVE ParseUintLoop(_, _, _, _)
ParseUintLoop(s, i, n, maxVal) ==
    IF i > Len(s) THEN Res(n, "nil")
    ELSE IF s[i] \notin digits THEN Res(0, "syntax")
    ELSE LET n1 == n * 10 + DigitVal(s[i])
         IN  IF n1 > maxVal THEN Res(maxVal, "range")
             ELSE ParseUintLoop(s, i + 1, n1, maxVal)

ParseUint(s, bitSize) ==
    IF s = <<>> THEN Res(0, "syntax")
    ELSE ParseUintLoop(s, 1, 0, Pow2(bitSize) - 1)

\* ParseInt without the range check: the number wrapped to the width.
ParseIntWrap(s, bitSize) ==
    IF s = <<>> THEN Res(0, "syntax")
    ELSE LET neg == s[1] = "-"
             s1 == IF s[1] \in {"+", "-"} THEN Tail(s) ELSE s
             un == ParseUint(s1, 30)
             v == IF neg THEN 0 - un.val ELSE un.val
             half == Pow2(bitSize - 1)
         IN  IF un.err = "syntax" THEN Res(0, "syntax")
             ELSE Res(((v + half) % Pow2(bitSize)) - half, "nil")

ParseInt(s, bitSize) ==
    IF s = <<>> THEN Res(0, "syntax")
    ELSE LET neg == s[1] = "-"
             s1 == IF s[1] \in {"+", "-"} THEN Tail(s) ELSE s
             un == ParseUint(s1, bitSize)
             cutoff == Pow2(bitSize - 1)
         IN  IF un.err = "syntax" THEN Res(0, "syntax")
             ELSE IF ~neg /\ un.val >= cutoff THEN Res(cutoff - 1, "range")
             ELSE IF neg /\ un.val > cutoff THEN Res(0 - cutoff, "range")
             ELSE Res(IF neg THEN 0 - un.val ELSE un.val, "nil")

\* errParse: nil stays nil, any other error is wrapped.
errParse(e) == IF e = "nil" THEN "nil" ELSE "failed to parse"

(***************************************************************************)
(* Parse and ParseSlice.  Each returns the destination's new value and     *)
(* the error; old is the destination's value before the call.              *)
(***************************************************************************)
TextTrue == <<"t", "r", "u", "e">>
TextFalse == <<"f", "a", "l", "s", "e">>

\* parseBool accepting what strconv.ParseBool accepts.
parseBoolLoose(in, old) ==
    IF in \in {TextTrue, <<"t">>, <<"1">>, <<"T", "r", "u", "e">>}
    THEN Res(TRUE, "nil")
    ELSE IF in \in {TextFalse, <<"f">>, <<"0">>, <<"F", "a", "l", "s", "e">>}
    THEN Res(FALSE, "nil")
    ELSE Res(old, "failed to parse into bool")

parseBool(in, old) ==
    IF in = TextTrue THEN Res(TRUE, "nil")
    ELSE IF in = TextFalse THEN Res(FALSE, "nil")
    ELSE Res(old, "failed to parse into bool")

\* The conversion the methods of TimeParser, Time and ParserText stand
\* for: a token that starts with a digit is kept as the value, any other
\* token fails and leaves the value as it was.
parseText(in, old) ==
    IF in # <<>> /\ in[1] \in digits THEN Res(in, "nil")
    ELSE Res(old, "cannot parse")

\* A call of a method of the destination: the method's outcome, with the
\* call added to the destination's log.
invoke(method, arg, old, r) ==
    Res([log |-> Append(old.log, <<method, arg>>), val |-> r.val], r.err)

\* parser.Parse(input)
callParse(in, old) == invoke("Parse", in, old, parseText(in, old.val))

\* unmarshaler.UnmarshalText(input)
callUnmarshalText(in, old) ==
    invoke("UnmarshalText", in, old, parseText(in, old.val))

\* The built-in rules converting the unsigned kinds as signed ones.
parseKindAllSigned(in, t, old) ==
    CASE Kind(t) \in {"int", "uint"} ->
           LET r == ParseInt(in, typeBits(t)) IN Res(r.val, errParse(r.err))
      [] Kind(t) = "bool" -> parseBool(in, old)
      [] Kind(t) = "string" -> Res(in, "nil")
      [] OTHER ->
           IF ConvertibleToBytes(t) THEN Res(MakeSlice(in), "nil")
           ELSE Res(old, "unsupported kind")

\* The built-in rules storing a number only when its conversion succeeded.
parseKindKeepOld(in, t, old) ==
    CASE Kind(t) = "int" ->
           LET r == ParseInt(in, typeBits(t))
           IN  Res(IF r.err = "nil" THEN r.val ELSE old, errParse(r.err))
      [] Kind(t) = "uint" ->
           LET r == ParseUint(in, typeBits(t))
           IN  Res(IF r.err = "nil" THEN r.val ELSE old, errParse(r.err))
      [] Kind(t) = "bool" -> parseBool(in, old)
      [] Kind(t) = "string" -> Res(in, "nil")
      [] OTHER ->
           IF ConvertibleToBytes(t) THEN Res(MakeSlice(in), "nil")
           ELSE Res(old, "unsupported kind")

\* The built-in rules of Parse, by the destination's kind.
parseKind(in, t, old) ==
    CASE Kind(t) = "int" ->
           LET r == ParseInt(in, typeBits(t)) IN Res(r.val, errParse(r.err))
      [] Kind(t) = "uint" ->
           LET r == ParseUint(in, typeBits(t)) IN Res(r.val, errParse(r.err))
      [] Kind(t) = "bool" -> parseBool(in, old)
      [] Kind(t) = "string" -> Res(in, "nil")
      [] OTHER ->
           IF ConvertibleToBytes(t) THEN Res(MakeSlice(in), "nil")
           ELSE Res(old, "unsupported kind")

\* Parse with the two interfaces tried in the other order.
ParseTextFirst(in, t, old) ==
    IF "TextUnmarshaler" \in T(t).caps THEN callUnmarshalText(in, old)
    ELSE IF "Parser" \in T(t).caps THEN callParse(in, old)
    ELSE parseKind(in, t, old)

\* Parse: the destination's Parser, else its TextUnmarshaler, else the
\* built-in rule of its kind.
Parse(in, t, old) ==
    IF "Parser" \in T(t).caps THEN callParse(in, old)
    ELSE IF "TextUnmarshaler" \in T(t).caps THEN callUnmarshalText(in, old)
    ELSE parseKind(in, t, old)

\* derefType
RECURSIVE derefType(_)
derefType(t) == IF Kind(t) = "ptr" THEN derefType(T(t).elem) ELSE t

\* derefAlloc: the value with every nil pointer of its chain allocated.
RECURSIVE derefAlloc(_, _)
derefAlloc(v, t) ==
    IF Kind(t) = "ptr"
    THEN LET e == T(t).elem
         IN  <<derefAlloc(IF v = NilPtr THEN Zero(e) ELSE v[1], e)>>
    ELSE v

\* The value at the end of an allocated pointer chain.
RECURSIVE Elem(_, _)
Elem(v, t) == IF Kind(t) = "ptr" THEN Elem(v[1], T(t).elem) ELSE v

\* The allocated pointer chain v with x stored at its end.
RECURSIVE SetElem(_, _, _)
SetElem(v, t, x) ==
    IF Kind(t) = "ptr" THEN <<SetElem(v[1], T(t).elem, x)>> ELSE x

\* Parse(input, derefAlloc(buf.Index(i))): element i of the buffer.
ParseElem(in, et) ==
    LET e0 == derefAlloc(Zero(et), et)
        r == Parse(in, derefType(et), Elem(e0, et))
    IN  Res(SetElem(e0, et, r.val), r.err)

\* The loop of parseSlice converting into the destination itself: the
\* elements converted before a failure stay in it.
RECURSIVE parseSliceLoopInPlace(_, _, _, _, _)
parseSliceLoopInPlace(ins, i, buf, t, old) ==
    IF i > Len(ins) THEN Res(MakeSlice(buf), "nil")
    ELSE LET r == ParseElem(ins[i], T(t).elem)
         IN  IF r.err # "nil" THEN Res(MakeSlice(buf), r.err)
             ELSE parseSliceLoopInPlace(ins, i + 1, Append(buf, r.val), t, old)

\* The loop of parseSlice from input i on; buf holds the elements so far.
RECURSIVE parseSliceLoop(_, _, _, _, _)
parseSliceLoop(ins, i, buf, t, old) ==
    IF i > Len(ins) THEN Res(MakeSlice(buf), "nil")
    ELSE LET r == ParseElem(ins[i], T(t).elem)
         IN  IF r.err # "nil" THEN Res(old, r.err)
             ELSE parseSliceLoop(ins, i + 1, Append(buf, r.val), t, old)

\* parseSlice testing the length of the inputs instead of nil.
parseSliceNilForEmpty(inputs, t, old) ==
    IF ~(Len(inputs.elems) > 0) THEN Res(Zero(t), "nil")
    ELSE parseSliceLoop(inputs.elems, 1, <<>>, t, old)

\* parseSlice appending to the destination's elements.
parseSliceAppend(inputs, t, old) ==
    IF inputs.isnil THEN Res(Zero(t), "nil")
    ELSE parseSliceLoop(inputs.elems, 1, old.elems, t, old)

parseSlice(inputs, t, old) ==
    IF inputs.isnil THEN Res(Zero(t), "nil")
    ELSE parseSliceLoop(inputs.elems, 1, <<>>, t, old)

\* The loop of SliceParserStruct.ParseSlice from value i on.  acc is out:
\* self.Inner[:0] with the numbers appended so far.  It shares the array
\* of Inner, so the numbers that found room in it show in Inner even when
\* a later value fails.  strconv.Atoi converts at the width of int, which
\* no token of the model reaches.
RECURSIVE sliceParserLoop(_, _, _, _)
sliceParserLoop(vals, i, acc, inner) ==
    IF i > Len(vals)
    THEN Res([isnil |-> inner.isnil /\ acc = <<>>, elems |-> acc], "nil")
    ELSE LET r == ParseInt(vals[i], 30)
         IN  IF r.err # "nil"
             THEN Res([inner EXCEPT !.elems =
                         [k \in 1..Len(inner.elems) |->
                            IF k <= Len(acc) THEN acc[k] ELSE inner.elems[k]]],
                      "Atoi: " \o r.err)
             ELSE sliceParserLoop(vals, i + 1, Append(acc, r.val), inner)

\* impl.ParseSlice(inputs)
callParseSlice(inputs, old) ==
    invoke("ParseSlice", inputs, old,
           sliceParserLoop(inputs.elems, 1, <<>>, old.val))

\* ParseSlice running the built-in rule for a nil list of inputs.
ParseSliceNonNil(inputs, t, old) ==
    IF "SliceParser" \in T(t).caps /\ ~inputs.isnil
    THEN callParseSlice(inputs, old)
    ELSE parseSlice(inputs, t, old)

\* ParseSlice: the destination's SliceParser, else the built-in rule.
ParseSlice(inputs, t, old) ==
    IF "SliceParser" \in T(t).caps THEN callParseSlice(inputs, old)
    ELSE parseSlice(inputs, t, old)


(***************************************************************************)
(* Calls of Parse and ParseSlice.                                          *)
(***************************************************************************)
DoParse ==
    /\ ppc = "call"
    /\ call = "Parse"
    /\ LET r == Parse(input, typ, cell)
       IN  cell' = r.val /\ err' = r.err
    /\ ppc' = "done"
    /\ UNCHANGED <<call, typ, input, cell0, orig>>
    /\ UNCHANGED <<scanVars, decVars, cacheVars, hasVars>>

DoParseSlice ==
    /\ ppc = "call"
    /\ call = "ParseSlice"
    /\ LET r == ParseSlice(input, typ, cell)
       IN  cell' = r.val /\ err' = r.err
    /\ ppc' = "done"
    /\ UNCHANGED <<call, typ, input, cell0, orig>>
    /\ UNCHANGED <<scanVars, decVars, cacheVars, hasVars>>

\* All texts over an alphabet, of length n at most.
RECURSIVE Texts(_, _)
Texts(alphabet, n) ==
    IF n = 0 THEN {<<>>}
    ELSE LET S == Texts(alphabet, n - 1)
         IN  S \cup {Append(s, ch) : s \in S, ch \in alphabet}

\* Tokens offered to a bool destination.
BoolTokens ==
    Texts({"t", "r", "u", "e", "T", " "}, MaxTokLen)
      \cup { TextTrue, TextFalse, <<"0">>, <<"1">>, <<"t">>, <<"f">>,
             <<"T", "r", "u", "e">>, <<"T", "R", "U", "E">>,
             <<"F", "a", "l", "s", "e">>, <<"F", "A", "L", "S", "E">>,
             <<"y", "e", "s">>, <<"n", "o">>, <<"o", "n">>,
             <<"o", "f", "f">>, <<" ", "f", "a", "l", "s", "e">>,
             <<"f", "a", "l", "s", "e", " ">>, <<"f", "a", "l", "s">>,
             <<"f", "a", "l", "s", "e", "e">> }

\* Tokens offered to the other scalar destinations.
PlainTokens ==
    { <<>>, <<"0">>, <<"2", "0">>, <<"3", "0">>, <<"-", "1">>,
      <<"+", "7">>, <<"1", "2", "7">>, <<"1", "2", "8">>,
      <<"-", "1", "2", "8">>, <<"-", "1", "2", "9">>, <<"2", "5", "5">>,
      <<"2", "5", "6">>, <<"x">>, <<"2", "x">>, <<"9", "9", "9", "x">>,
      <<" ", "2">>, TextTrue }

\* Tokens of the lists offered to ParseSlice.
ListTokens == { <<>>, <<"2", "0">>, <<"3", "0">>, <<"x">>, TextTrue }

RECURSIVE Lists(_)
Lists(n) ==
    IF n = 0 THEN {<<>>}
    ELSE LET S == Lists(n - 1)
         IN  S \cup {Append(l, tok) : l \in S, tok \in ListTokens}

TokenLists == {NilList} \cup {List(l) : l \in Lists(MaxListLen)}

\* What a cell of a type without methods may hold before a call.
BuiltinPriors(t) ==
    CASE Kind(t) \in {"int", "uint"} -> {0, 10}
      [] Kind(t) = "bool" -> {FALSE, TRUE}
      [] Kind(t) = "string" -> {<<>>, <<"o">>}
      [] t = "[]byte" -> {NilSlice, MakeSlice(<<"o">>)}
      [] t = "[]int8" ->
           {NilSlice, MakeSlice(<<>>), MakeSlice(<<10, 20>>),
            MakeSlice(<<10, 20, 30, 40>>)}
      [] t = "[]*int8" ->
           {NilSlice, MakeSlice(<<>>), MakeSlice(<< <<10>>, NilPtr >>),
            MakeSlice(<< <<10>>, <<20>>, <<30>>, <<40>> >>)}
      [] t = "[]string" ->
           {NilSlice, MakeSlice(<<>>), MakeSlice(<< <<"o">>, <<>> >>)}
      [] t = "[]bool" -> {NilSlice, MakeSlice(<<>>), MakeSlice(<<TRUE>>)}
      [] OTHER -> {Zero(t)}

\* What a destination cell may hold before a call.
Priors(t) ==
    IF "SliceParser" \in T(t).caps
    THEN {[log |-> <<>>, val |-> v] :
            v \in {NilSlice, MakeSlice(<<>>), MakeSlice(<<10, 20>>)}}
    ELSE IF T(t).caps # {}
    THEN {[log |-> <<>>, val |-> v] : v \in {<<>>, <<"o">>}}
    ELSE BuiltinPriors(t)

ScalarTypes ==
    {"int8", "uint8", "bool", "string", "[]byte", "Embed", "TimeParser",
     "Time", "ParserText"}

SliceTypes ==
    {"[]int8", "[]*int8", "[]string", "[]bool", "SliceParserStruct",
     "SliceParserList"}

ParseInit ==
    /\ \/ /\ call = "Parse"
          /\ typ \in ScalarTypes
          /\ input \in (IF typ = "bool" THEN BoolTokens ELSE PlainTokens)
       \/ /\ call = "ParseSlice"
          /\ typ \in SliceTypes
          /\ input \in TokenLists
    /\ cell0 \in Priors(typ)
    /\ cell = cell0
    /\ err = "nil"
    /\ ppc = "call"
    /\ orig = 0
    /\ ScanIdle
    /\ DecodeIdle
    /\ CacheIdle
    /\ HasIdle

ParseNext == DoParse \/ DoParseSlice

SpecParse == ParseInit /\ [][ParseNext]_vars

(***************************************************************************)
(* Parse of the base-10 text of a number into the integer kinds.  The      *)
(* kinds of 32 and 64 bits run the same code with their own bitSize; their *)
(* values are beyond the integers of the model.                            *)
(***************************************************************************)
DigitChars == <<"0", "1", "2", "3", "4", "5", "6", "7", "8", "9">>

\* fmt.Sprint of a number that is not negative.
RECURSIVE FormatUint(_)
FormatUint(n) ==
    IF n < 10 THEN <<DigitChars[n + 1]>>
    ELSE Append(FormatUint(n \div 10), DigitChars[(n % 10) + 1])

\* fmt.Sprint of an integer.
FormatInt(n) == IF n < 0 THEN <<"-">> \o FormatUint(0 - n) ELSE FormatUint(n)

IntTypes == {"int8", "uint8", "int16", "uint16"}

\* The least and the greatest value of an integer kind.
MinInt(t) == IF Kind(t) = "int" THEN 0 - Pow2(typeBits(t) - 1) ELSE 0

MaxInt(t) ==
    IF Kind(t) = "int" THEN Pow2(typeBits(t) - 1) - 1
    ELSE Pow2(typeBits(t)) - 1

\* The numbers beyond a kind's range that its width would wrap onto
\* 0, 1, 10 and the ends of the range.
WrapNumbers(t) ==
    UNION {{n + Pow2(typeBits(t)), n - Pow2(typeBits(t))} :
              n \in {MinInt(t), 0 - 1, 0, 1, 10, MaxInt(t)}}

\* The numbers offered to a kind: its whole range, MaxOver numbers on
\* each side of it, and the numbers that would wrap.
OfferedNumbers(t) ==
    ((MinInt(t) - MaxOver)..(MaxInt(t) + MaxOver)) \cup WrapNumbers(t)

\* Tokens that are not the base-10 text of an integer.
NonNumeric ==
    { <<>>, <<"x">>, <<"2", "x">>, <<"x", "2">>, <<" ", "2">>, <<"2", " ">>,
      <<"-">>, <<"+">>, <<"-", "-", "2">>, <<"1", ".", "5">>,
      <<"1", "e", "2">>, <<"0", "x", "1", "0">>, <<"2", ",", "0">>,
      TextTrue, <<"g", "a", "r", "b", "a", "g", "e">> }

NumInit ==
    /\ call = "Parse"
    /\ typ \in IntTypes
    /\ \/ orig \in OfferedNumbers(typ) /\ input = FormatInt(orig)
       \/ orig = 0 /\ input \in NonNumeric
    /\ cell0 = 10
    /\ cell = cell0
    /\ err = "nil"
    /\ ppc = "call"
    /\ ScanIdle
    /\ DecodeIdle
    /\ CacheIdle
    /\ HasIdle

NumNext == DoParse

SpecNum == NumInit /\ [][NumNext]_vars


(***************************************************************************)
(* The field resolver.                                                     *)
(***************************************************************************)
\* strings.IndexRune(tag, ','): the 1-based place of the first comma, 0
\* when there is none.
RECURSIVE IndexComma(_, _)
IndexComma(tag, i) ==
    IF i > Len(tag) THEN 0
    ELSE IF tag[i] = "," THEN i
    ELSE IndexComma(tag, i + 1)

tagIdent(tag) ==
    LET index == IndexComma(tag, 1)
        cut == IF index > 0 THEN SubSeq(tag, 1, index - 1) ELSE tag
    IN  IF cut = <<"-">> THEN <<>> ELSE cut

jsonName(field) == tagIdent(field.Tag)

isPublic(pkgPath) == pkgPath = ""

jsonField(name, path) == [Name |-> name, Path |-> path]

\* appendJsonFields: buf with the entries of field index of the struct
\* type st appended; st is the type, given by its fields.  The path is
\* 0-based, as reflect's field offsets are; the deferred resliceInts gives
\* the caller its own path back, which is what passing path by value does.
\* eachJsonField is the loop over the fields of a type, from offset index
\* on.
RECURSIVE appendJsonFields(_, _, _, _), eachJsonField(_, _, _, _)
\* appendJsonFields starting every path anew at the field's own offset.
appendJsonFieldsNoPrefix(buf, path, st, index) ==
    LET field == st[index + 1]
        here == <<index>>
        name == jsonName(field)
        inner == derefType(field.Type)
    IN  IF ~isPublic(field.PkgPath) THEN buf
        ELSE IF name # <<>> THEN Append(buf, jsonField(name, here))
        ELSE IF field.Anonymous /\ Kind(inner) = "struct"
             THEN eachJsonField(buf, here, T(inner).fields, 0)
        ELSE buf

appendJsonFields(buf, path, st, index) ==
    LET field == st[index + 1]
        here == Append(path, index)
        name == jsonName(field)
        inner == derefType(field.Type)
    IN  IF ~isPublic(field.PkgPath) THEN buf
        ELSE IF name # <<>> THEN Append(buf, jsonField(name, here))
        ELSE IF field.Anonymous /\ Kind(inner) = "struct"
             THEN eachJsonField(buf, here, T(inner).fields, 0)
        ELSE buf

eachJsonField(buf, path, st, index) ==
    IF index >= Len(st) THEN buf
    ELSE eachJsonField(appendJsonFields(buf, path, st, index), path, st,
                       index + 1)

jsonFields(st) == eachJsonField(<<>>, <<>>, st, 0)

\* loadJsonFields as a single caller sees it: the cached list is the
\* computed list.
loadJsonFields(t) == jsonFields(T(t).fields)

(***************************************************************************)
(* loadJsonFields under concurrent callers.  Load and Store of the         *)
(* sync.Map are atomic; jsonFields builds its list in the caller's own     *)
(* out, one field of the type at a step.                                   *)
(***************************************************************************)
Callers == 1..MaxCallers

\* val, ok := jsonFieldCache.Load(typ), and the return on a hit.
CacheLoad(g) ==
    /\ pcs[g] = "load"
    /\ IF jsonFieldCache.ok
       THEN /\ rets' = [rets EXCEPT ![g] = jsonFieldCache.val]
            /\ pcs' = [pcs EXCEPT ![g] = "done"]
       ELSE /\ rets' = rets
            /\ pcs' = [pcs EXCEPT ![g] =
                         IF Len(recFields) > 0 THEN "fields" ELSE "store"]
    /\ UNCHANGED <<recFields, jsonFieldCache, idxs, outs>>
    /\ UNCHANGED <<scanVars, parseVars, decVars, hasVars>>

\* One turn of the loop of jsonFields, the caller's list being shared
\* through the cache while it is built.
CacheFieldShared(g) ==
    /\ pcs[g] = "fields"
    /\ outs' = [outs EXCEPT ![g] =
                  appendJsonFields(outs[g], <<>>, recFields, idxs[g])]
    /\ idxs' = [idxs EXCEPT ![g] = idxs[g] + 1]
    /\ pcs' = [pcs EXCEPT ![g] =
                 IF idxs[g] + 1 < Len(recFields) THEN "fields" ELSE "store"]
    /\ jsonFieldCache' = [ok |-> TRUE, val |-> outs'[g]]
    /\ UNCHANGED <<recFields, rets>>
    /\ UNCHANGED <<scanVars, parseVars, decVars, hasVars>>

\* One turn of the loop of jsonFields.
CacheField(g) ==
    /\ pcs[g] = "fields"
    /\ outs' = [outs EXCEPT ![g] =
                  appendJsonFields(outs[g], <<>>, recFields, idxs[g])]
    /\ idxs' = [idxs EXCEPT ![g] = idxs[g] + 1]
    /\ pcs' = [pcs EXCEPT ![g] =
                 IF idxs[g] + 1 < Len(recFields) THEN "fields" ELSE "store"]
    /\ UNCHANGED <<recFields, jsonFieldCache, rets>>
    /\ UNCHANGED <<scanVars, parseVars, decVars, hasVars>>

\* jsonFieldCache.Store(typ, out); return out
CacheStore(g) ==
    /\ pcs[g] = "store"
    /\ jsonFieldCache' = [ok |-> TRUE, val |-> outs[g]]
    /\ rets' = [rets EXCEPT ![g] = outs[g]]
    /\ pcs' = [pcs EXCEPT ![g] = "done"]
    /\ UNCHANGED <<recFields, idxs, outs>>
    /\ UNCHANGED <<scanVars, parseVars, decVars, hasVars>>

\* The fields a generated record type is made of.
FieldChoices ==
    { StructField("Val", "", NameVal, FALSE, "int8"),
      StructField("Ptr", "", NamePtr \o <<",", "o">>, FALSE, "*int8"),
      StructField("Untagged", "", <<>>, FALSE, "Embed"),
      StructField("Dash", "", NameDash, FALSE, "int8"),
      StructField("private", "rd", NamePrivate, FALSE, "int8"),
      StructField("Embed", "", <<>>, TRUE, "*Embed"),
      StructField("Embed", "", NameEmb, TRUE, "Embed"),
      StructField("Embed", "", NameDash, TRUE, "Embed"),
      StructField("embed", "rd", <<>>, TRUE, "Embed"),
      StructField("Mid", "", <<>>, TRUE, "Mid"),
      StructField("ParserText", "", <<>>, TRUE, "ParserText") }

RECURSIVE FieldLists(_)
FieldLists(n) ==
    IF n = 0 THEN {<<>>}
    ELSE LET S == FieldLists(n - 1)
         IN  S \cup {Append(l, f) : l \in S, f \in FieldChoices}

\* A record type declares no two fields of one name.
DistinctNames(l) ==
    \A i, j \in 1..Len(l) : l[i].Name = l[j].Name => i = j

CacheInit ==
    /\ recFields \in {l \in FieldLists(MaxFields) : DistinctNames(l)}
    /\ jsonFieldCache = [ok |-> FALSE, val |-> <<>>]
    /\ pcs = [g \in Callers |-> "load"]
    /\ idxs = [g \in Callers |-> 0]
    /\ outs = [g \in Callers |-> <<>>]
    /\ rets = [g \in Callers |-> <<>>]
    /\ ScanIdle
    /\ ParseIdle
    /\ DecodeIdle
    /\ HasIdle

CacheNext == \E g \in Callers : CacheLoad(g) \/ CacheField(g) \/ CacheStore(g)

SpecCache == CacheInit /\ [][CacheNext]_vars

(***************************************************************************)
(* loadJsonFields on types that embed themselves.  appendJsonFields calls  *)
(* itself for every embedded struct with nothing that remembers the types  *)
(* it is in; the calls stand on the goroutine's stack, which is finite:    *)
(* depth counts them, and a call the stack has no room for ends the        *)
(* program (fatal error: stack overflow).  A result is the list with ok,   *)
(* which is FALSE when the stack overflowed.                               *)
(***************************************************************************)
Walked(buf, ok) == [buf |-> buf, ok |-> ok]

RECURSIVE walkJsonFields(_, _, _, _, _), walkEachField(_, _, _, _, _)
\* appendJsonFields as call number depth on the stack.
walkJsonFields(buf, path, st, index, depth) ==
    IF depth > MaxStack THEN Walked(buf, FALSE)
    ELSE LET field == st[index + 1]
             here == Append(path, index)
             name == jsonName(field)
             inner == derefType(field.Type)
         IN  IF ~isPublic(field.PkgPath) THEN Walked(buf, TRUE)
             ELSE IF name # <<>>
             THEN Walked(Append(buf, jsonField(name, here)), TRUE)
             ELSE IF field.Anonymous /\ Kind(inner) = "struct"
             THEN walkEachField(buf, here, T(inner).fields, 0, depth + 1)
             ELSE Walked(buf, TRUE)

\* The loop over the fields of a type, from offset index on.
walkEachField(buf, path, st, index, depth) ==
    IF index >= Len(st) THEN Walked(buf, TRUE)
    ELSE LET r == walkJsonFields(buf, path, st, index, depth)
         IN  IF ~r.ok THEN r
             ELSE walkEachField(r.buf, path, st, index + 1, depth)

\* What one turn of the loop of jsonFields leaves, r being the outcome of
\* its call of appendJsonFields.
WalkStep(g, r) ==
    /\ outs' = [outs EXCEPT ![g] = r.buf]
    /\ idxs' = [idxs EXCEPT ![g] = IF r.ok THEN idxs[g] + 1 ELSE idxs[g]]
    /\ pcs' = [pcs EXCEPT ![g] =
                 IF ~r.ok THEN "overflow"
                 ELSE IF idxs[g] + 1 < Len(recFields) THEN "fields"
                 ELSE "store"]

\* One turn of the loop of jsonFields.
WalkField(g) ==
    /\ pcs[g] = "fields"
    /\ WalkStep(g, walkJsonFields(outs[g], <<>>, recFields, idxs[g], 1))
    /\ UNCHANGED <<recFields, jsonFieldCache, rets>>
    /\ UNCHANGED <<scanVars, parseVars, decVars, hasVars>>

\* The fields a generated record type is made of: those of FieldChoices,
\* and the self-embedding types embedded, named, and unexported.
WalkChoices ==
    FieldChoices \cup
    { StructField("Loop", "", <<>>, TRUE, "*Loop"),
      StructField("Ping", "", <<>>, TRUE, "Ping"),
      StructField("Loop", "", NameEmb, TRUE, "*Loop"),
      StructField("loop", "rd", <<>>, TRUE, "*Loop") }

WalkTypes ==
    {LoopFields, PingFields, PongFields}
    \cup {<<f>> : f \in WalkChoices}
    \cup {<<f, StructField("Last", "", NameStr, FALSE, "string")>> :
             f \in WalkChoices}

WalkInit ==
    /\ recFields \in WalkTypes
    /\ jsonFieldCache = [ok |-> FALSE, val |-> <<>>]
    /\ pcs = [g \in Callers |-> "load"]
    /\ idxs = [g \in Callers |-> 0]
    /\ outs = [g \in Callers |-> <<>>]
    /\ rets = [g \in Callers |-> <<>>]
    /\ ScanIdle
    /\ ParseIdle
    /\ DecodeIdle
    /\ HasIdle

WalkNext == \E g \in Callers : CacheLoad(g) \/ WalkField(g) \/ CacheStore(g)

SpecWalk == WalkInit /\ [][WalkNext]_vars

(***************************************************************************)
(* Reaching a field by its path.                                           *)
(***************************************************************************)
FieldType(t, index) == T(derefType(t)).fields[index + 1].Type

\* The type of the cell derefAllocAt returns.
RECURSIVE TypeAt(_, _)
TypeAt(t, path) ==
    IF path = <<>> THEN derefType(t)
    ELSE TypeAt(FieldType(t, path[1]), Tail(path))

\* derefAllocAt: the record with every nil pointer on the path allocated.
RECURSIVE derefAllocAt(_, _, _)
derefAllocAt(v, t, path) ==
    LET v1 == derefAlloc(v, t)
    IN  IF path = <<>> THEN v1
        ELSE LET s == Elem(v1, t)
                 i == path[1] + 1
                 f == derefAllocAt(s[i], FieldType(t, path[1]), Tail(path))
             IN  SetElem(v1, t, [s EXCEPT ![i] = f])

\* The cell derefAllocAt returns, in a record it has been applied to.
RECURSIVE CellAt(_, _, _)
CellAt(v, t, path) ==
    IF path = <<>> THEN Elem(v, t)
    ELSE CellAt(Elem(v, t)[path[1] + 1], FieldType(t, path[1]), Tail(path))

\* The record with x stored in that cell.
RECURSIVE SetCellAt(_, _, _, _)
SetCellAt(v, t, path, x) ==
    IF path = <<>> THEN SetElem(v, t, x)
    ELSE LET s == Elem(v, t)
             i == path[1] + 1
             f == SetCellAt(s[i], FieldType(t, path[1]), Tail(path), x)
         IN  SetElem(v, t, [s EXCEPT ![i] = f])

\* zeroAt reaching the field by derefAllocAt.
zeroAtAlloc(v, t, path) ==
    SetCellAt(derefAllocAt(v, t, path), t, path, Zero(TypeAt(t, path)))

\* zeroAt: the record with the field at the path set to its zero value;
\* unchanged when a pointer on the way is nil.
RECURSIVE zeroAt(_, _, _)
zeroAt(v, t, path) ==
    IF path = <<>> THEN Zero(t)
    ELSE IF Kind(t) = "ptr"
    THEN IF v = NilPtr THEN v ELSE <<zeroAt(v[1], T(t).elem, path)>>
    ELSE LET i == path[1] + 1
         IN  [v EXCEPT ![i] = zeroAt(v[i], T(t).fields[i].Type, Tail(path))]

\* isSliceEmpty without the single empty token.
isSliceEmptyNoBlank(val) == ~(Len(val.elems) > 0)

isSliceEmpty(val) ==
    ~(Len(val.elems) > 0) \/ (Len(val.elems) = 1 /\ val.elems[1] = <<>>)

(***************************************************************************)
(* Form.Decode.  The destination is a settable pointer to a Tar.           *)
(***************************************************************************)
\* Has taking a key with a null list for absent.
HasValue(name) == name \in DOMAIN form /\ ~isSliceEmpty(form[name])

\* Form.Has: _, ok := self[key]
Has(name) == name \in DOMAIN form

\* decodeField zeroing a field whose name is not a key.
decodeFieldZeroAbsent(root, field) ==
    IF ~Has(field.Name) \/ isSliceEmpty(form[field.Name])
    THEN Res(zeroAt(root, "Tar", field.Path), "nil")
    ELSE LET in == form[field.Name]
             root1 == derefAllocAt(root, "Tar", field.Path)
             t == TypeAt("Tar", field.Path)
             old == CellAt(root1, "Tar", field.Path)
             r == IF Kind(t) = "slice" THEN parseSlice(in, t, old)
                  ELSE Parse(in.elems[1], t, old)
         IN  Res(SetCellAt(root1, "Tar", field.Path, r.val), r.err)

\* decodeField reaching the field by derefAllocAt before it tests the
\* list, and zeroing the cell it reached.
decodeFieldAllocFirst(rec, root, field) ==
    IF ~Has(field.Name) THEN Res(root, "nil")
    ELSE LET in == form[field.Name]
             root1 == derefAllocAt(root, rec, field.Path)
             t == TypeAt(rec, field.Path)
             old == CellAt(root1, rec, field.Path)
             r == IF isSliceEmpty(in) THEN Res(Zero(t), "nil")
                  ELSE IF "SliceParser" \in T(t).caps
                  THEN callParseSlice(in, old)
                  ELSE IF Kind(t) = "slice" THEN parseSlice(in, t, old)
                  ELSE Parse(in.elems[1], t, old)
         IN  Res(SetCellAt(root1, rec, field.Path, r.val), r.err)

\* decodeField converting the last token of the list, not the first.
decodeFieldLastToken(rec, root, field) ==
    IF ~Has(field.Name) THEN Res(root, "nil")
    ELSE IF isSliceEmpty(form[field.Name])
    THEN Res(zeroAt(root, rec, field.Path), "nil")
    ELSE LET in == form[field.Name]
             root1 == derefAllocAt(root, rec, field.Path)
             t == TypeAt(rec, field.Path)
             old == CellAt(root1, rec, field.Path)
             r == IF "SliceParser" \in T(t).caps
                  THEN callParseSlice(in, old)
                  ELSE IF Kind(t) = "slice" THEN parseSlice(in, t, old)
                  ELSE Parse(in.elems[Len(in.elems)], t, old)
         IN  Res(SetCellAt(root1, rec, field.Path, r.val), r.err)

\* decodeField on a destination of record type rec: the record after the
\* field was decoded, and the error.
decodeFieldIn(rec, root, field) ==
    IF ~Has(field.Name) THEN Res(root, "nil")
    ELSE IF isSliceEmpty(form[field.Name])
    THEN Res(zeroAt(root, rec, field.Path), "nil")
    ELSE LET in == form[field.Name]
             root1 == derefAllocAt(root, rec, field.Path)
             t == TypeAt(rec, field.Path)
             old == CellAt(root1, rec, field.Path)
             r == IF "SliceParser" \in T(t).caps
                  THEN callParseSlice(in, old)
                  ELSE IF Kind(t) = "slice" THEN parseSlice(in, t, old)
                  ELSE Parse(in.elems[1], t, old)
         IN  Res(SetCellAt(root1, rec, field.Path, r.val), r.err)

\* decodeField, the destination a Tar.
decodeField(root, field) == decodeFieldIn("Tar", root, field)

\* errBadReq, applied by trans to a non-nil error.
errBadReq(e) == IF e = "nil" THEN "nil" ELSE "400: " \o e

\* Decode up to its loop: an empty source returns at once.
FormDecode ==
    /\ dpc = "start"
    /\ IF ~(Cardinality(DOMAIN form) > 0) \/ Len(loadJsonFields("Tar")) = 0
       THEN dpc' = "done" /\ idx' = idx
       ELSE dpc' = "loop" /\ idx' = 1
    /\ UNCHANGED <<form, json, dst, dst0, derr>>
    /\ UNCHANGED <<scanVars, parseVars, cacheVars, hasVars>>

\* The loop going on after an error.
FieldStepContinue(r, last) ==
    /\ dst' = r.val
    /\ derr' = errBadReq(r.err)
    /\ idx' = idx + 1
    /\ dpc' = IF last THEN "done" ELSE "loop"

\* One iteration of the loop over the resolved fields; the first error
\* returns, the end of the list returns nil.
FieldStep(r, last) ==
    /\ dst' = r.val
    /\ derr' = errBadReq(r.err)
    /\ idx' = idx + 1
    /\ dpc' = IF r.err # "nil" \/ last THEN "done" ELSE "loop"

FormDecodeField ==
    /\ dpc = "loop"
    /\ FieldStep(decodeField(dst, loadJsonFields("Tar")[idx]),
                 idx = Len(loadJsonFields("Tar")))
    /\ UNCHANGED <<form, json, dst0>>
    /\ UNCHANGED <<scanVars, parseVars, cacheVars, hasVars>>

\* The token lists of a keyed source's entries.
FormLists ==
    { NilList, List(<<>>), List(<< <<>> >>), List(<< <<"2", "0">> >>),
      List(<< <<"2", "0">>, <<"3", "0">> >>), List(<< <<"x">> >>) }

FormKeys ==
    {NameNum, NameStr, NameVal, NamePtr, NameSeq, NameNop, NamePrivate,
     NameDash}

\* The keyed sources of MaxKeys keys at most.
Forms ==
    UNION {[keys -> FormLists] :
              keys \in {K \in SUBSET FormKeys : Cardinality(K) <= MaxKeys}}

\* Destination records before the decode: zero, fully set, and set but
\* for the embedded pointer.
TarSet(embed) ==
    <<embed, 10, <<10>>, MakeSlice(<<10, 20>>), 7, 8, 9>>

TarPriors ==
    {Zero("Tar"), TarSet(NilPtr), TarSet(<< <<5, <<"o">>>> >>)}

FormInit ==
    /\ form \in Forms
    /\ json = <<>>
    /\ dst0 \in TarPriors
    /\ dst = dst0
    /\ idx = 0
    /\ derr = "nil"
    /\ dpc = "start"
    /\ ScanIdle
    /\ ParseIdle
    /\ CacheIdle
    /\ HasIdle

FormNext == FormDecode \/ FormDecodeField

SpecForm == FormInit /\ [][FormNext]_vars

(***************************************************************************)
(* Form.Decode, the destination a settable pointer to a Caps.              *)
(***************************************************************************)
CapsDecode ==
    /\ dpc = "start"
    /\ IF ~(Cardinality(DOMAIN form) > 0) \/ Len(loadJsonFields("Caps")) = 0
       THEN dpc' = "done" /\ idx' = idx
       ELSE dpc' = "loop" /\ idx' = 1
    /\ UNCHANGED <<form, json, dst, dst0, derr>>
    /\ UNCHANGED <<scanVars, parseVars, cacheVars, hasVars>>

CapsDecodeField ==
    /\ dpc = "loop"
    /\ FieldStep(decodeFieldIn("Caps", dst, loadJsonFields("Caps")[idx]),
                 idx = Len(loadJsonFields("Caps")))
    /\ UNCHANGED <<form, json, dst0>>
    /\ UNCHANGED <<scanVars, parseVars, cacheVars, hasVars>>

CapsKeys == {NameVal, NameTime, NameStamp, NameList}

\* The token lists of the entries: those of FormLists, and lists whose
\* first and later tokens differ in being convertible.
CapsLists ==
    FormLists \cup { List(<< <<"2", "0">>, <<"x">> >>),
                     List(<< <<"x">>, <<"2", "0">> >>) }

CapsForms ==
    UNION {[keys -> CapsLists] :
              keys \in {K \in SUBSET CapsKeys : Cardinality(K) <= MaxKeys}}

\* Destination records before the decode: zero, and every field set.
CapsPriors ==
    { Zero("Caps"),
      << 10, [log |-> <<>>, val |-> <<"1">>], [log |-> <<>>, val |-> <<"2">>],
         [log |-> <<>>, val |-> MakeSlice(<<10, 20>>)] >> }

CapsInit ==
    /\ form \in CapsForms
    /\ json = <<>>
    /\ dst0 \in CapsPriors
    /\ dst = dst0
    /\ idx = 0
    /\ derr = "nil"
    /\ dpc = "start"
    /\ ScanIdle
    /\ ParseIdle
    /\ CacheIdle
    /\ HasIdle

CapsNext == CapsDecode \/ CapsDecodeField

SpecCaps == CapsInit /\ [][CapsNext]_vars


(***************************************************************************)
(* Form.Has and Form.Set.  The range over the map visits the keys in any   *)
(* order, one at a step.                                                   *)
(***************************************************************************)
\* Form.Has(key)
FormHas ==
    /\ hpc = "call"
    /\ hop = "Has"
    /\ hok' = Has(hkey)
    /\ hpc' = "done"
    /\ UNCHANGED <<hop, hkey, hset>>
    /\ UNCHANGED <<scanVars, parseVars, decVars, cacheVars>>

\* Form.Set() up to its loop: out := make(Set, len(self))
FormSet ==
    /\ hpc = "call"
    /\ hop = "Set"
    /\ hset' = {}
    /\ hpc' = IF DOMAIN form = {} THEN "done" ELSE "range"
    /\ UNCHANGED <<hop, hkey, hok>>
    /\ UNCHANGED <<scanVars, parseVars, decVars, cacheVars>>

\* One turn of the range: out.Add(key)
FormSetAdd ==
    /\ hpc = "range"
    /\ \E k \in DOMAIN form \ hset :
         /\ hset' = hset \cup {k}
         /\ hpc' = IF DOMAIN form \ hset = {k} THEN "done" ELSE "range"
    /\ UNCHANGED <<hop, hkey, hok>>
    /\ UNCHANGED <<scanVars, parseVars, decVars, cacheVars>>

HasInit ==
    /\ form \in Forms
    /\ json = <<>> /\ dst = <<>> /\ dst0 = <<>>
    /\ idx = 0 /\ derr = "nil" /\ dpc = "done"
    /\ \/ hop = "Has" /\ hkey \in FormKeys \cup {<<>>}
       \/ hop = "Set" /\ hkey = <<>>
    /\ hok = FALSE
    /\ hset = {}
    /\ hpc = "call"
    /\ ScanIdle
    /\ ParseIdle
    /\ CacheIdle

HasNext == FormHas \/ FormSet \/ FormSetAdd

SpecHas == HasInit /\ [][HasNext]_vars

(***************************************************************************)
(* Json.Decode: json.Unmarshal of the source into the destination.  The    *)
(* source is held as the members of its top-level object; a member's       *)
(* value is null, an integer number or an array of integers that fit the   *)
(* element type.                                                           *)
(***************************************************************************)
JNull == [t |-> "null", v |-> 0]
JNum(n) == [t |-> "num", v |-> n]
JArr(ns) == [t |-> "arr", v |-> ns]

\* Whether an integer of the type's width holds n.
FitsInt(n, t) ==
    /\ n >= 0 - Pow2(typeBits(t) - 1)
    /\ n <= Pow2(typeBits(t) - 1) - 1

\* A non-null value stored into a cell whose pointers are allocated; inner
\* is the cell's type behind the pointers.
storeValue(val, alloc, t, inner) ==
    CASE val.t = "num" /\ Kind(inner) = "int" /\ FitsInt(val.v, inner) ->
           Res(SetElem(alloc, t, val.v), "nil")
      [] val.t = "arr" /\ Kind(inner) = "slice" ->
           Res(SetElem(alloc, t, MakeSlice(val.v)), "nil")
      [] OTHER -> Res(alloc, "json: cannot unmarshal")

\* json.Unmarshal of one member's value into a field's cell: null sets a
\* pointer or a slice to nil and has no effect on any other cell.
unmarshalValue(val, t, old) ==
    IF val.t = "null"
    THEN Res(IF Kind(t) \in {"ptr", "slice"} THEN Zero(t) ELSE old, "nil")
    ELSE storeValue(val, derefAlloc(old, t), t, derefType(t))

\* The record with the outcome r of a member stored in field i.
storeMember(v, i, r) == Res([v EXCEPT ![i] = r.val], r.err)

\* One member decoded into the field it names.
unmarshalField(v, i, val) ==
    storeMember(v, i, unmarshalValue(val, T("Tar").fields[i].Type, v[i]))

\* The members decoded into the resolved fields from field i on; e is the
\* first error so far, which the decoder keeps while it goes on.
RECURSIVE unmarshalFields(_, _, _, _)
unmarshalRest(r, fields, i, e) ==
    unmarshalFields(r.val, fields, i, IF e # "nil" THEN e ELSE r.err)

unmarshalFields(v, fields, i, e) ==
    IF i > Len(fields) THEN Res(v, e)
    ELSE IF fields[i].Name \notin DOMAIN json
    THEN unmarshalFields(v, fields, i + 1, e)
    ELSE unmarshalRest(
             unmarshalField(v, fields[i].Path[1] + 1, json[fields[i].Name]),
             fields, i + 1, e)

\* json.Unmarshal(self, out)
Unmarshal(v) == unmarshalFields(v, loadJsonFields("Tar"), 1, "nil")

JsonStep(r) ==
    /\ dst' = r.val
    /\ derr' = errBadReq(r.err)

JsonDecode ==
    /\ dpc = "json"
    /\ JsonStep(Unmarshal(dst))
    /\ dpc' = "done"
    /\ UNCHANGED <<form, json, dst0, idx>>
    /\ UNCHANGED <<scanVars, parseVars, cacheVars, hasVars>>

\* The values of the generated members, by the member's name.
JsonValues(name) ==
    CASE name = NameSeq ->
           {JNull, JArr(<<>>), JArr(<<20, 30>>), JNum(20)}
      [] OTHER -> {JNull, JNum(0), JNum(20), JNum(300), JArr(<<20>>)}

JsonKeys == {NameVal, NamePtr, NameSeq, NameNop}

\* The JSON sources of MaxMembers members at most.
Jsons ==
    UNION {{m \in [keys -> UNION {JsonValues(k) : k \in keys}] :
               \A k \in keys : m[k] \in JsonValues(k)} :
              keys \in {K \in SUBSET JsonKeys : Cardinality(K) <= MaxMembers}}

JsonInit ==
    /\ form = <<>>
    /\ json \in Jsons
    /\ dst0 \in TarPriors
    /\ dst = dst0
    /\ idx = 0
    /\ derr = "nil"
    /\ dpc = "json"
    /\ ScanIdle
    /\ ParseIdle
    /\ CacheIdle
    /\ HasIdle

JsonNext == JsonDecode

SpecJson == JsonInit /\ [][JsonNext]_vars


(***************************************************************************)
(* Properties of the key-set scanner.                                      *)
(***************************************************************************)
\* C1: for a well-formed document whose top-level value is an object the
\* scan never panics and, when it returns, the set holds exactly the
\* object's immediate key names.
C1_ObjectKeys ==
    wf.kind = "obj" =>
        /\ spc # "panic"
        /\ spc = "done" => out = wf.keys

\* A finished scan of an object with two distinct keys and a nested object.
C1_Witness ==
    /\ spc = "done"
    /\ wf.kind = "obj"
    /\ Cardinality(out) = 2
    /\ \E i \in 2..Len(src) : src[i] = "{"

\* C2: for a well-formed document whose top-level value is not an object,
\* and for empty or whitespace-only input, the scan never panics and
\* returns the empty set.
C2_NonObjectEmpty ==
    wf.kind \in {"lit", "arr", "blank"} =>
        /\ spc # "panic"
        /\ spc = "done" => out = {}

\* A finished scan of a top-level array that holds an object.
C2_Witness ==
    /\ spc = "done"
    /\ wf.kind = "arr"
    /\ \E i \in 1..Len(src) : src[i] = "{"


(***************************************************************************)
(* Properties of Form.Decode and Json.Decode.                              *)
(***************************************************************************)
\* The resolved fields of the destination, in resolution order.
Resolved == loadJsonFields("Tar")

\* The paths of the destination's own fields that are unnamed, excluded or
\* unexported.
SkippedPaths ==
    { <<i - 1>> : i \in { j \in 1..Len(TarFields) :
          /\ ~TarFields[j].Anonymous
          /\ jsonName(TarFields[j]) = <<>> \/ ~isPublic(TarFields[j].PkgPath) } }

\* The declared type of the field at a path.
RECURSIVE DeclaredType(_, _)
DeclaredType(t, path) ==
    IF path = <<>> THEN t
    ELSE DeclaredType(FieldType(t, path[1]), Tail(path))

\* The field at a path as <<value>>, or <<>> when a pointer on the way to
\* it is nil and the field does not exist.
RECURSIVE Read(_, _, _)
Read(v, t, path) ==
    IF path = <<>> THEN <<v>>
    ELSE IF Kind(t) = "ptr"
    THEN IF v = NilPtr THEN <<>> ELSE Read(v[1], T(t).elem, path)
    ELSE Read(v[path[1] + 1], T(t).fields[path[1] + 1].Type, Tail(path))

\* The zero value of the field at a path, as Read gives it.
ZeroRead(path) == <<Zero(DeclaredType("Tar", path))>>

\* The field at the path holds in record b what it held in record a; a
\* field that did not exist in a does not exist in b or holds its zero value.
Kept(a, b, path) ==
    IF Read(a, "Tar", path) # <<>>
    THEN Read(b, "Tar", path) = Read(a, "Tar", path)
    ELSE Read(b, "Tar", path) \in {<<>>, ZeroRead(path)}

\* The three null-equivalent token lists.
IsNullList(l) == l = NilList \/ l = List(<<>>) \/ l = List(<< <<>> >>)

\* The entry of resolved field i is present and null-equivalent.
NullEntry(i) == Has(Resolved[i].Name) /\ IsNullList(form[Resolved[i].Name])

\* The entry of resolved field i is present and is to be converted.
ValueEntry(i) == Has(Resolved[i].Name) /\ ~IsNullList(form[Resolved[i].Name])

\* C3: at every point of Form.Decode, and so after a successful decode,
\* every resolved field whose external name is not a key of the source and
\* every unnamed, excluded or unexported field holds the value it held
\* before the decode; such a field of a sub-record that did not exist
\* before holds nothing but its zero value.
C3_AbsentUntouched ==
    /\ \A i \in 1..Len(Resolved) :
          ~Has(Resolved[i].Name) => Kept(dst0, dst, Resolved[i].Path)
    /\ \A p \in SkippedPaths : Kept(dst0, dst, p)

\* A successful decode that replaced the sequence field and left the
\* integer field, whose name is not a key, at its prior value of 10.
C3_Witness ==
    /\ dpc = "done" /\ derr = "nil"
    /\ Has(NameSeq) /\ dst[4] # dst0[4]
    /\ ~Has(NameVal) /\ dst0[2] = 10 /\ dst[2] = 10
    /\ dst[5] = 7

C5_JsonNullZeroes ==
    (dpc = "done" /\ NameVal \in DOMAIN json /\ json[NameVal] = JNull) =>
        /\ dst[2] = Zero("int8")
        /\ (\A k \in DOMAIN json : json[k] = JNull) => derr = "nil"

\* The sub-record embedded by pointer, and the external names of its fields.
EmbedNames == {NameNum, NameStr}

\* Some field of the embedded sub-record has an entry to be converted.
EmbedValueEntry ==
    \E n \in EmbedNames : Has(n) /\ ~IsNullList(form[n])

\* What a successful decode leaves in a field of the once nil sub-record.
EmbedExpected(n, t) ==
    IF Has(n) /\ ~IsNullList(form[n])
    THEN Parse(form[n].elems[1], t, Zero(t)).val
    ELSE Zero(t)

FailsAt(i) ==
    /\ ValueEntry(i)
    /\ IF Kind(DeclaredType("Tar", Resolved[i].Path)) = "slice"
       THEN \E k \in 1..Len(form[Resolved[i].Name].elems) :
               ParseElem(form[Resolved[i].Name].elems[k],
                         T(DeclaredType("Tar", Resolved[i].Path)).elem).err
                   # "nil"
       ELSE Parse(form[Resolved[i].Name].elems[1],
                  TypeAt("Tar", Resolved[i].Path),
                  Zero(TypeAt("Tar", Resolved[i].Path))).err # "nil"

\* What the conversion of the entry of resolved field i stores.
Converted(i) ==
    IF Kind(DeclaredType("Tar", Resolved[i].Path)) = "slice"
    THEN MakeSlice([k \in 1..Len(form[Resolved[i].Name].elems) |->
             ParseElem(form[Resolved[i].Name].elems[k],
                       T(DeclaredType("Tar", Resolved[i].Path)).elem).val])
    ELSE Parse(form[Resolved[i].Name].elems[1],
               TypeAt("Tar", Resolved[i].Path),
               Zero(TypeAt("Tar", Resolved[i].Path))).val

\* C9: when Form.Decode returns a failure, the failing field is the first
\* resolved field whose entry fails to convert, the fields before it hold
\* their newly converted values and the fields after it hold what they
\* held before; when it returns no failure, no entry fails to convert.
C9_FailFast ==
    dpc = "done" =>
        IF derr = "nil"
        THEN \A i \in 1..Len(Resolved) : ~FailsAt(i)
        ELSE /\ idx - 1 \in 1..Len(Resolved)
             /\ FailsAt(idx - 1)
             /\ \A i \in 1..Len(Resolved) :
                   /\ i < idx - 1 => ~FailsAt(i)
                   /\ (i < idx - 1 /\ ValueEntry(i)) =>
                         CellAt(dst, "Tar", Resolved[i].Path) = Converted(i)
                   /\ i > idx - 1 => Kept(dst0, dst, Resolved[i].Path)

\* A decode that failed on the integer field after it had written 20 into
\* the sub-record, and left the sequence field, a key as well, as it was.
C9_Witness ==
    /\ dpc = "done" /\ derr # "nil"
    /\ Has(NameVal) /\ form[NameVal] = List(<< <<"x">> >>)
    /\ Has(NameSeq) /\ form[NameSeq] = List(<< <<"2", "0">>, <<"3", "0">> >>)
    /\ dst0[4] = MakeSlice(<<10, 20>>) /\ dst[4] = dst0[4]

(***************************************************************************)
(* Properties of Parse and ParseSlice.                                     *)
(***************************************************************************)
\* The pointer to a value of type t implements the interface c.
HasCap(t, c) == c \in T(t).caps

\* C6 as stated: ParseSlice succeeds on each of the three null forms and
\* leaves the destination sequence without elements.
C6_NullFormsAlike ==
    (ppc = "done" /\ call = "ParseSlice" /\ ~HasCap(typ, "SliceParser")
        /\ IsNullList(input)) =>
        err = "nil" /\ cell.elems = <<>>

\* C6, amended: ParseSlice succeeds on a nil list and on an empty list,
\* whatever the element type and the destination's contents, and leaves a
\* nil sequence for the first and an empty one for the second; the list of
\* one empty token is converted like any other list, which gives one empty
\* element of text and fails, the destination unchanged, for the integer,
\* pointer-to-integer and bool element types.
C6_NullLists ==
    (ppc = "done" /\ call = "ParseSlice" /\ ~HasCap(typ, "SliceParser")) =>
        /\ input = NilList => err = "nil" /\ cell = NilSlice
        /\ input = List(<<>>) => err = "nil" /\ cell = MakeSlice(<<>>)
        /\ input = List(<< <<>> >>) =>
              IF typ = "[]string"
              THEN err = "nil" /\ cell = MakeSlice(<< <<>> >>)
              ELSE err # "nil" /\ cell = cell0

\* ParseSlice has emptied, but not made nil, a sequence of four elements
\* on an empty list.
C6_Witness ==
    /\ ppc = "done" /\ call = "ParseSlice"
    /\ input = List(<<>>)
    /\ Len(cell0.elems) = 4
    /\ cell = MakeSlice(<<>>)

\* C7: when ParseSlice succeeds on a list that is not null-equivalent, the
\* destination is a sequence of as many elements as there are tokens and
\* element i is the conversion of token i into a fresh element, whatever
\* the destination held before.
C7_FullReplace ==
    (ppc = "done" /\ call = "ParseSlice" /\ ~HasCap(typ, "SliceParser")
        /\ err = "nil" /\ ~IsNullList(input)) =>
        /\ ~cell.isnil
        /\ Len(cell.elems) = Len(input.elems)
        /\ \A i \in 1..Len(input.elems) :
              cell.elems[i] = ParseElem(input.elems[i], T(typ).elem).val

\* Two tokens have replaced four elements reached by pointer.
C7_Witness ==
    /\ ppc = "done" /\ call = "ParseSlice" /\ err = "nil"
    /\ typ = "[]*int8"
    /\ input = List(<< <<"2", "0">>, <<"3", "0">> >>)
    /\ Len(cell0.elems) = 4
    /\ cell = MakeSlice(<< <<20>>, <<30>> >>)

\* C10: Parse into a bool succeeds on the token true, which gives true,
\* and on the token false, which gives false, and fails on every other
\* token.
C10_BoolExact ==
    (ppc = "done" /\ call = "Parse" /\ typ = "bool") =>
        /\ input = <<"t", "r", "u", "e">> => err = "nil" /\ cell = TRUE
        /\ input = <<"f", "a", "l", "s", "e">> => err = "nil" /\ cell = FALSE
        /\ input \notin {<<"t", "r", "u", "e">>, <<"f", "a", "l", "s", "e">>}
              => err # "nil"

\* Parse has refused the token True.
C10_Witness ==
    /\ ppc = "done" /\ call = "Parse" /\ typ = "bool"
    /\ input = <<"T", "r", "u", "e">>
    /\ err # "nil"

\* The number is a value of the integer kind.
InRange(n, t) == MinInt(t) <= n /\ n <= MaxInt(t)

\* The token is the base-10 text of an integer: digits after an optional
\* minus sign.
IsDecimal(s) ==
    /\ s # <<>>
    /\ IF s[1] = "-"
       THEN Len(s) > 1 /\ \A i \in 2..Len(s) : s[i] \in digits
       ELSE \A i \in 1..Len(s) : s[i] \in digits

\* C11: for each integer kind and each value of the kind, Parse of the
\* value's base-10 text succeeds and stores exactly that value.
C11_RoundTrip ==
    (ppc = "done" /\ call = "Parse" /\ typ \in IntTypes
        /\ input = FormatInt(orig) /\ InRange(orig, typ)) =>
        err = "nil" /\ cell = orig

\* Parse has stored the least 16-bit signed value from its text.
C11_Witness ==
    /\ ppc = "done" /\ call = "Parse"
    /\ typ = "int16"
    /\ orig = 0 - 32768
    /\ input = <<"-", "3", "2", "7", "6", "8">>
    /\ err = "nil" /\ cell = 0 - 32768

\* C12: Parse into an integer kind fails for the base-10 text of every
\* number outside the kind's range and for every token that is not the
\* base-10 text of a number; when it succeeds the cell holds the number
\* itself, never the number wrapped to the width.
C12_RangeChecked ==
    (ppc = "done" /\ call = "Parse" /\ typ \in IntTypes) =>
        /\ (IsDecimal(input) /\ ~InRange(orig, typ)) => err # "nil"
        /\ ~IsDecimal(input) => err # "nil"
        /\ err = "nil" => cell = orig

\* Parse has refused 256 for an 8-bit unsigned cell, which holds neither
\* 256 wrapped to 0 nor what it held before.
C12_Witness ==
    /\ ppc = "done" /\ call = "Parse"
    /\ typ = "uint8"
    /\ orig = 256
    /\ err # "nil" /\ cell # 0


(***************************************************************************)
(* The one conversion Parse runs.                                          *)
(***************************************************************************)
\* The log of a destination on which exactly the given method ran, once,
\* with the input.
OnlyCall(method) == cell.log = Append(cell0.log, <<method, input>>)

\* C13: Parse runs exactly one conversion: the destination's Parser when
\* it has one (also when it is a TextUnmarshaler too), else its
\* TextUnmarshaler when it has one, else the built-in rule of its kind; a
\* destination with either interface never receives the built-in rule, and
\* the outcome is that of the one method called.
C13_OnePath ==
    (ppc = "done" /\ call = "Parse") =>
        IF HasCap(typ, "Parser")
        THEN /\ OnlyCall("Parse")
             /\ Res(cell.val, err) = parseText(input, cell0.val)
        ELSE IF HasCap(typ, "TextUnmarshaler")
        THEN /\ OnlyCall("UnmarshalText")
             /\ Res(cell.val, err) = parseText(input, cell0.val)
        ELSE <<cell, err>> = <<parseKind(input, typ, cell0).val,
                               parseKind(input, typ, cell0).err>>

C13_Witness ==
    /\ ppc = "done"
    /\ call = "Parse"
    /\ typ = "ParserText"
    /\ input = <<"2", "x">>
    /\ cell = [log |-> << <<"Parse", input>> >>, val |-> input]
    /\ err = "nil"

\* C14: ParseSlice on a destination that is a SliceParser hands the whole
\* list of inputs, unchanged, nil or empty included, to the destination's
\* ParseSlice, once, runs no built-in rule, and returns that method's
\* outcome; the destination's kind, slice or not, plays no part.
C14_Delegates ==
    (ppc = "done" /\ call = "ParseSlice" /\ HasCap(typ, "SliceParser")) =>
        /\ OnlyCall("ParseSlice")
        /\ Res(cell.val, err)
             = sliceParserLoop(input.elems, 1, <<>>, cell0.val)

C14_Witness ==
    /\ ppc = "done"
    /\ call = "ParseSlice"
    /\ typ = "SliceParserList"
    /\ input = NilList
    /\ cell0.val = MakeSlice(<<10, 20>>)
    /\ cell = [log |-> << <<"ParseSlice", NilList>> >>,
               val |-> MakeSlice(<<>>)]
    /\ err = "nil"


(***************************************************************************)
(* Properties of the field resolver and of its cache.                      *)
(***************************************************************************)
\* The external name a tag declares: what precedes its first comma.
Declared(tag) ==
    LET n == CHOOSE n \in 0..Len(tag) :
                 /\ \A k \in 1..n : tag[k] # ","
                 /\ n = Len(tag) \/ tag[n + 1] = ","
    IN  SubSeq(tag, 1, n)

Exported(f) == f.PkgPath = ""

\* The field has an external name: its tag declares one that is neither
\* empty nor the exclude marker.
Named(f) == Exported(f) /\ Declared(f.Tag) \notin {<<>>, <<"-">>}

\* The field is an exported embedded record, by value or by pointer, that
\* has no external name.
Promoting(f) ==
    /\ Exported(f) /\ ~Named(f) /\ f.Anonymous
    /\ \/ Kind(f.Type) = "struct"
       \/ Kind(f.Type) = "ptr" /\ Kind(T(f.Type).elem) = "struct"

RecordOf(f) == IF Kind(f.Type) = "ptr" THEN T(f.Type).elem ELSE f.Type

\* The entries (external name, offset path) of a record type, given by its
\* fields: one for each field that has an external name, and those of each
\* embedded record that promotes its fields, the offset of that record put
\* before their paths.
RECURSIVE Entries(_)
Entries(fields) ==
    UNION { LET f == fields[i + 1]
            IN  IF Named(f) THEN {<<Declared(f.Tag), <<i>> >>}
                ELSE IF Promoting(f)
                THEN {<<e[1], <<i>> \o e[2]>> :
                        e \in Entries(T(RecordOf(f)).fields)}
                ELSE {}
            : i \in 0..(Len(fields) - 1) }

\* Declaration order, a promoted field standing where the embedded record
\* is declared: the order of the paths, offset by offset.
RECURSIVE Before(_, _)
Before(p, q) ==
    /\ q # <<>>
    /\ \/ p = <<>>
       \/ p[1] < q[1]
       \/ p[1] = q[1] /\ Before(Tail(p), Tail(q))

\* The list is the resolved fields of the record type of these fields.
IsResolved(list, fields) ==
    /\ {<<list[i].Name, list[i].Path>> : i \in 1..Len(list)}
         = Entries(fields)
    /\ \A i, j \in 1..Len(list) : i < j => Before(list[i].Path, list[j].Path)
    /\ \A i \in 1..Len(list) : list[i].Name # <<>>

C16_CacheComplete ==
    /\ \A g \in DOMAIN pcs : pcs[g] = "done" => rets[g] = jsonFields(recFields)
    /\ jsonFieldCache.ok => jsonFieldCache.val = jsonFields(recFields)

\* Two callers found no entry, both computed and stored the list, and the
\* second store wrote over the first.
C16_Witness ==
    /\ Len(recFields) = 2
    /\ jsonFields(recFields) # <<>>
    /\ pcs[1] = "done" /\ idxs[1] = 2
    /\ pcs[2] = "done" /\ idxs[2] = 2
    /\ jsonFieldCache.ok
    /\ rets[1] = rets[2]


(***************************************************************************)
(* Properties of the scanner on raw sources.                               *)
(***************************************************************************)
\* The byte at the 1-based place i, "" past the end.
Ch(s, i) == IF i >= 1 /\ i <= Len(s) THEN s[i] ELSE ""

\* The 0-based place of the first significant byte, Len(s) when none.
RECURSIVE FirstByte(_, _)
FirstByte(s, i) ==
    IF i >= Len(s) THEN Len(s)
    ELSE IF s[i + 1] \in {" ", "\n", "\r", "\t", VTab} THEN FirstByte(s, i + 1)
    ELSE i

\* The grammar of the values the raw sources are made of: the place after
\* the value that starts at place i, 0 when none does.  A number is a run
\* of the digit, with or without a sign, a string is the one the tokens
\* hold, an object is a brace
\* pair around members key ':' value parted by ',', an array a bracket pair
\* around values parted by ','.
RECURSIVE NumEnd(_, _), ValEnd(_, _), MembersEnd(_, _), ElemsEnd(_, _)
NumEnd(s, i) == IF Ch(s, i) = "1" THEN NumEnd(s, i + 1) ELSE i

StrEnd(s, i) ==
    IF Ch(s, i) = Quote /\ Ch(s, i + 1) = "a" /\ Ch(s, i + 2) = Quote
    THEN i + 3 ELSE 0

ObjEnd(s, i) ==
    IF Ch(s, i) # "{" THEN 0
    ELSE IF Ch(s, i + 1) = "}" THEN i + 2
    ELSE MembersEnd(s, i + 1)

ArrEnd(s, i) ==
    IF Ch(s, i) # "[" THEN 0
    ELSE IF Ch(s, i + 1) = "]" THEN i + 2
    ELSE ElemsEnd(s, i + 1)

ValEnd(s, i) ==
    CASE Ch(s, i) = "1" -> NumEnd(s, i)
      [] Ch(s, i) = "-" /\ Ch(s, i + 1) = "1" -> NumEnd(s, i + 1)
      [] Ch(s, i) = Quote -> StrEnd(s, i)
      [] Ch(s, i) = "{" -> ObjEnd(s, i)
      [] Ch(s, i) = "[" -> ArrEnd(s, i)
      [] OTHER -> 0

MembersEnd(s, i) ==
    LET k == StrEnd(s, i)
        v == IF k # 0 /\ Ch(s, k) = ":" THEN ValEnd(s, k + 1) ELSE 0
    IN  IF v = 0 THEN 0
        ELSE IF Ch(s, v) = "}" THEN v + 1
        ELSE IF Ch(s, v) = "," THEN MembersEnd(s, v + 1)
        ELSE 0

ElemsEnd(s, i) ==
    LET v == ValEnd(s, i)
    IN  IF v = 0 THEN 0
        ELSE IF Ch(s, v) = "]" THEN v + 1
        ELSE IF Ch(s, v) = "," THEN ElemsEnd(s, v + 1)
        ELSE 0

Finished == spc \in {"done", "panic"}

\* The source is one well-formed value between whitespace.
WellFormed(s) ==
    LET v == ValEnd(s, FirstByte(s, 0) + 1)
    IN  v # 0 /\ FirstByte(s, v - 1) = Len(s)

C20_ObjectGrammar ==
    (wf.kind = "rawobj" /\ Finished) =>
        /\ (spc = "panic") = (ObjEnd(src, 1) = 0)
        /\ spc = "done" => cur = ObjEnd(src, 1) - 1

\* The scan has panicked on the closing brace behind a trailing comma.
C20_Witness ==
    /\ src = <<"{", Quote, "a", Quote, ":", "1", ",", "}">>
    /\ spc = "panic"
    /\ cur = 7
    /\ out = {<<"a">>}


(***************************************************************************)
(* Properties of the membership of a keyed source.                         *)
(***************************************************************************)
\* C19: Form.Has(k) is true exactly when k is a key of the map, whatever
\* list the key holds, a nil list, an empty list and a list of one empty
\* token included; Form.Set() holds exactly the keys of the map.
C19_KeysOnly ==
    hpc = "done" =>
        /\ hop = "Has" => (hok = (\E k \in DOMAIN form : k = hkey))
        /\ hop = "Set" => hset = {k \in FormKeys : k \in DOMAIN form}

\* Form.Has has answered true for a key that holds a nil list.
C19_Witness ==
    /\ hpc = "done"
    /\ hop = "Has"
    /\ hkey = NameVal
    /\ hkey \in DOMAIN form
    /\ form[hkey] = NilList
    /\ hok

(***************************************************************************)
(* Properties of the scanner's nesting level.                              *)
(***************************************************************************)
\* The objects and arrays open after the first c bytes of the source:
\* the opening braces and brackets outside strings, less the closing ones.
RECURSIVE OpenAt(_, _, _, _)
OpenAt(c, i, inStr, n) ==
    IF i > c \/ i > Len(src) THEN n
    ELSE IF inStr
    THEN IF src[i] = Backslash THEN OpenAt(c, i + 2, TRUE, n)
         ELSE OpenAt(c, i + 1, src[i] # Quote, n)
    ELSE IF src[i] = Quote THEN OpenAt(c, i + 1, TRUE, n)
    ELSE IF src[i] \in {"{", "["} THEN OpenAt(c, i + 1, FALSE, n + 1)
    ELSE IF src[i] \in {"}", "]"} THEN OpenAt(c, i + 1, FALSE, n - 1)
    ELSE OpenAt(c, i + 1, FALSE, n)

Open == OpenAt(cur, 1, FALSE, 0)

\* The objects and arrays a step opens, less those it closes: a step
\* starts outside strings and consumes the bytes from cur to cur'.
Opened == OpenAt(cur', cur + 1, FALSE, 0)

\* The key of the objects the generated documents nest.
NestedKey == <<"s", "i", "x">>

\* C21: at every step of a scan the level is the number of objects and
\* arrays open at the cursor, which is the number of running obj() and
\* arr() calls: 1 directly inside the top-level object, 0 once it is
\* closed; a step adds a key only at level 1, and the key of an object
\* nested at any depth, inside arrays too, is consumed and never added.
\* The level is 0 with nothing consumed, every step changes it by what
\* the bytes it consumes open and close, and it is the number open at the
\* cursor where the scan ends.
C21_LevelCounts ==
    /\ lvl = 0 /\ cur = 0
    /\ [](/\ lvl = Len(stack)
          /\ (spc # "run" => lvl = Open)
          /\ (spc = "done" => lvl = 0)
          /\ ((spc = "run" /\ Len(stack) = 1) => Top.fn = "obj" /\ lvl = 1)
          /\ NestedKey \notin out)
    /\ [][lvl' = lvl + Opened]_vars
    /\ [][out' # out => lvl = 1 /\ lvl' = 1]_vars

\* The key of an object inside an array of the top-level object has been
\* consumed at level 3 and is not in the result.
C21_Witness ==
    /\ spc = "run"
    /\ lvl = 3
    /\ stack[2].fn = "arr"
    /\ Top.fn = "obj"
    /\ Top.mode = "afterKey"
    /\ Slice(cur - 4, cur - 1) = NestedKey
    /\ NestedKey \notin out

(***************************************************************************)
(* Properties of the string scanner.                                       *)
(***************************************************************************)
\* The backslashes that stand in a row right before byte i of the source
\* (indexed from 1), none of them before byte lo.
RECURSIVE SlashRun(_, _)
SlashRun(i, lo) ==
    IF i - 1 >= lo /\ src[i - 1] = Backslash
    THEN 1 + SlashRun(i - 1, lo) ELSE 0

\* The quotes from byte lo on that no backslash escapes.
EndQuotes(lo) ==
    {i \in lo..Len(src) : src[i] = Quote /\ SlashRun(i, lo) % 2 = 0}

\* The first key has been scanned: the scan is behind top() and behind
\* the first iteration of obj().
KeyScanned ==
    /\ wf.kind = "rawkey"
    /\ spc # "top"
    /\ ~(spc = "run" /\ cur = 1)

\* C22: a string ends at the first quote that is not escaped, a backslash
\* making the scanner skip exactly the byte after it, so that a quote
\* behind an odd row of backslashes is skipped and one behind an even row
\* ends the string; without such a quote the scan panics.  The key
\* recorded for the member is the bytes between its quotes as written,
\* escapes kept.
C22_RawKey ==
    KeyScanned =>
        IF EndQuotes(3) = {}
        THEN spc = "panic" /\ out = {}
        ELSE LET end == CHOOSE i \in EndQuotes(3) :
                            \A j \in EndQuotes(3) : i <= j
             IN  /\ out = {SubSeq(src, 3, end - 1)}
                 /\ cur >= end
                 /\ (spc = "run" /\ Top.mode = "afterKey") => cur = end

\* The key written as a\" has been scanned: the escaped quote is part of
\* the key and the backslash is kept.
C22_Witness ==
    /\ src = <<"{", Quote, "a", Backslash, Quote, Quote, ":", "1", "}">>
    /\ spc = "run"
    /\ Top.mode = "afterKey"
    /\ cur = 6
    /\ out = {<<"a", Backslash, Quote>>}

(***************************************************************************)
(* Properties of the number scanner.                                       *)
(***************************************************************************)
\* The token of a raw value: the bytes from the value's first byte up to
\* the first delimiter or the end of the input.
RECURSIVE TokenEnd(_)
TokenEnd(i) ==
    IF i > Len(src) \/ src[i] \in delims THEN i ELSE TokenEnd(i + 1)

NumToken == SubSeq(src, Len(NumHead) + 1, TokenEnd(Len(NumHead) + 1) - 1)

\* Byte i of token t, "" beyond its end.
TokAt(t, i) == IF i >= 1 /\ i <= Len(t) THEN t[i] ELSE ""

\* The index behind the row of digits that starts at byte i of token t.
RECURSIVE DigitsEnd(_, _)
DigitsEnd(t, i) ==
    IF TokAt(t, i) \in digits THEN DigitsEnd(t, i + 1) ELSE i

\* The numeric grammar: optional '-', digits, optional fraction of '.' and
\* digits, optional exponent of e or E, optional sign and digits.  Each
\* part gives the index behind it, 0 when the part is malformed.
IntPart(t) ==
    LET a == IF TokAt(t, 1) = "-" THEN 2 ELSE 1
        b == DigitsEnd(t, a)
    IN  IF b > a THEN b ELSE 0

FracPart(t, i) ==
    IF i = 0 THEN 0
    ELSE IF TokAt(t, i) # "." THEN i
    ELSE LET b == DigitsEnd(t, i + 1) IN IF b > i + 1 THEN b ELSE 0

ExpPart(t, i) ==
    IF i = 0 THEN 0
    ELSE IF TokAt(t, i) \notin exps THEN i
    ELSE LET a == IF TokAt(t, i + 1) \in signs THEN i + 2 ELSE i + 1
             b == DigitsEnd(t, a)
         IN  IF b > a THEN b ELSE 0

IsNumber(t) == ExpPart(t, FracPart(t, IntPart(t))) = Len(t) + 1

\* The member's value has been scanned: the scan is behind the iteration
\* of obj() that calls any().
NumScanned ==
    /\ wf.kind = "rawnum"
    /\ spc \in {"run", "panic"}
    /\ ~(spc = "run" /\ Top.mode \in {"beforeKey", "afterKey", "afterColon"})

\* C23: the number scanner takes exactly the tokens of the numeric grammar
\* (optional '-', digits, optional '.' and digits, optional e or E with
\* optional sign and digits) that a delimiter or the end of the input
\* follows, stopping behind the token, and panics on every other token: a
\* '-', '.' or exponent marker without a digit behind it, a second '.' or
\* exponent, a leading '+', a byte that is no delimiter behind the number.
C23_NumberGrammar ==
    NumScanned =>
        /\ (spc = "panic" /\ Top.mode = "afterColon") = ~IsNumber(NumToken)
        /\ IsNumber(NumToken) =>
              /\ cur >= Len(NumHead) + Len(NumToken)
              /\ (spc = "run" /\ Top.mode = "afterValue") =>
                    cur = Len(NumHead) + Len(NumToken)

\* The number 1e+1 that ends the input has been scanned to its end.
C23_Witness ==
    /\ wf.kind = "rawnum"
    /\ NumToken = <<"1", "e", "+", "1">>
    /\ spc = "run"
    /\ Top.mode = "afterValue"
    /\ cur = Len(src)

(***************************************************************************)
(* Properties of the zeroing of fields with conversions of their own.      *)
(***************************************************************************)
\* Field i of a Caps has been decoded from a null-equivalent entry.
NullDecoded(i) ==
    /\ dpc \in {"loop", "done"}
    /\ idx > i
    /\ CapsFields[i].Tag \in DOMAIN form
    /\ isSliceEmpty(form[CapsFields[i].Tag])

\* The call a field's converter gets for the entry: ParseSlice the whole
\* list, Parse and UnmarshalText the single token.
ConverterCall(i) ==
    LET caps == T(CapsFields[i].Type).caps
        in == form[CapsFields[i].Tag]
    IN  IF "SliceParser" \in caps THEN <<"ParseSlice", in>>
        ELSE IF "Parser" \in caps THEN <<"Parse", in.elems[1]>>
        ELSE <<"UnmarshalText", in.elems[1]>>

\* C24: Form.Decode zeroes a field for a present, null-equivalent entry
\* only when the field's type has no conversion of its own; a field whose
\* type has a Parser, TextUnmarshaler or SliceParser method is not zeroed:
\* its converter is called with the token or tokens.
C24_CustomNotZeroed ==
    \A i \in 1..Len(CapsFields) :
        NullDecoded(i) =>
            IF T(CapsFields[i].Type).caps = {}
            THEN dst[i] = Zero(CapsFields[i].Type)
            ELSE (\/ "SliceParser" \in T(CapsFields[i].Type).caps
                  \/ Len(form[CapsFields[i].Tag].elems) = 1) =>
                     dst[i].log = Append(dst0[i].log, ConverterCall(i))

(***************************************************************************)
(* Properties of the tokens a scalar field is decoded from.                *)
(***************************************************************************)
\* Field i of a Caps has been decoded from an entry that is no null.
ValueDecoded(i) ==
    /\ dpc \in {"loop", "done"}
    /\ idx > i
    /\ CapsFields[i].Tag \in DOMAIN form
    /\ ~isSliceEmpty(form[CapsFields[i].Tag])

\* The fields that are no sequences and have no ParseSlice.
ScalarFields ==
    {i \in 1..Len(CapsFields) :
        /\ Kind(CapsFields[i].Type) # "slice"
        /\ "SliceParser" \notin T(CapsFields[i].Type).caps}

\* C25: a field that is no sequence and has no bulk conversion is decoded
\* from the first token of its entry alone: the field's value and the
\* error of Form.Decode are those of converting the first token, whatever
\* the later tokens are, convertible or not.
C25_FirstTokenOnly ==
    \A i \in ScalarFields :
        ValueDecoded(i) =>
            LET first == form[CapsFields[i].Tag].elems[1]
                r == Parse(first, CapsFields[i].Type, dst0[i])
            IN  /\ dst[i] = r.val
                /\ r.err # "nil" =>
                      idx = i + 1 /\ dpc = "done" /\ derr = errBadReq(r.err)
                /\ (r.err = "nil" /\ idx = i + 1) => derr = "nil"

\* A number field was decoded from a list whose second token is no
\* number: it holds the first token's number and no error was returned.
C25_Witness ==
    /\ NameVal \in DOMAIN form
    /\ form[NameVal] = List(<< <<"2", "0">>, <<"x">> >>)
    /\ dst0[1] = 10
    /\ dst[1] = 20
    /\ dpc = "done"
    /\ derr = "nil"

(***************************************************************************)
(* Properties of the scanner's progress.                                   *)
(***************************************************************************)
\* The loops inside one step: from every cursor, the whitespace loop does
\* not go back, a string that ends has consumed its closing quote, and a
\* number that ends has not gone back.
ScannersAdvance ==
    \A c \in 0..Len(src) :
        /\ next(c) >= c
        /\ ~Panicked(str(c)) => str(c) > c
        /\ ~Panicked(num(c)) => num(c) >= c

\* The cursor stays within the source, but for a panic one byte behind
\* its end.
CursorInBounds ==
    /\ cur >= 0
    /\ cur <= Len(src) + 1
    /\ cur > Len(src) => spc = "panic"

\* An iteration of the loop of obj() or arr() that does not panic.
Iteration == spc = "run" /\ spc' \in {"run", "done"}

\* The iteration of obj() that finds the quote of the next key behind a
\* comma: it sets the mode and consumes nothing.
CommaIteration == Top.fn = "obj" /\ Top.mode = "afterComma"

\* C26 as stated: parseSet ends on every source by returning or by a
\* panic; the cursor never decreases, every iteration of the loops of the
\* object and array scanners advances it, the string, number and
\* whitespace loops advance it, and it stays within the source but for a
\* panic one byte behind the end.
C26_EveryIteration ==
    /\ <>Finished
    /\ [](ScannersAdvance /\ CursorInBounds)
    /\ [][cur' >= cur]_vars
    /\ [][Iteration => cur' > cur]_vars

\* C26: parseSet ends on every source by returning or by a panic; the
\* cursor never decreases, every iteration of the loops of the object and
\* array scanners advances it but the iteration of obj() that finds the
\* next key's quote behind a comma, which consumes nothing and is followed
\* by one that consumes the quote; the string, number and whitespace
\* loops advance it; it stays within the source but for a panic one byte
\* behind the end.
C26_Terminates ==
    /\ <>Finished
    /\ [](ScannersAdvance /\ CursorInBounds)
    /\ [][cur' >= cur]_vars
    /\ [][(Iteration /\ ~CommaIteration) => cur' > cur]_vars
    /\ [][(Iteration /\ CommaIteration) =>
             Top'.mode = "beforeKey" /\ peek(cur') = Quote]_vars

\* A backslash is the last byte of the source: the scan has panicked with
\* the cursor one byte behind the end.
C26_Witness ==
    /\ wf.kind = "bytes"
    /\ src[Len(src)] = Backslash
    /\ spc = "panic"
    /\ cur = Len(src) + 1

(***************************************************************************)
(* Properties of a failed conversion.                                      *)
(***************************************************************************)
\* C27: when the built-in rule of ParseSlice fails on an element, the
\* destination is what it was before the call, in length and in elements:
\* the elements are converted into a buffer of their own, and the
\* destination is assigned only when all of them are converted.
C27_FailureKeeps ==
    (ppc = "done" /\ call = "ParseSlice" /\ ~HasCap(typ, "SliceParser")
        /\ err # "nil") =>
        cell = cell0

\* The second of two tokens is no number: the two elements the
\* destination held are still there.
C27_Witness ==
    /\ ppc = "done" /\ call = "ParseSlice" /\ err # "nil"
    /\ typ = "[]int8"
    /\ input = List(<< <<"2", "0">>, <<"x">> >>)
    /\ cell0 = MakeSlice(<<10, 20>>)
    /\ cell = MakeSlice(<<10, 20>>)

(***************************************************************************)
(* Properties of zeroing behind a nil pointer.                             *)
(***************************************************************************)
\* The iteration of Form.Decode that decodes a field from a present,
\* null-equivalent entry.
ZeroingStep == dpc = "loop" /\ NullEntry(idx)

\* C28: zeroing allocates nothing.  The iteration of Form.Decode that
\* finds a present, null-equivalent entry leaves the whole destination as
\* it is, nil pointer included, when a pointer on the field's path is nil;
\* when the field can be reached it sets the field to its zero value and
\* leaves every pointer on the path as it is.
C28_ZeroingKeepsNil ==
    [][ZeroingStep =>
          IF Read(dst, "Tar", Resolved[idx].Path) = <<>>
          THEN dst' = dst
          ELSE /\ Read(dst', "Tar", Resolved[idx].Path)
                     = ZeroRead(Resolved[idx].Path)
               /\ (dst[1] = NilPtr) = (dst'[1] = NilPtr)]_vars

\* The entry of the sub-record's field num is null and the pointer to the
\* sub-record was nil: the field has been decoded and the pointer is nil.
C28_Witness ==
    /\ dpc \in {"loop", "done"}
    /\ Resolved[1].Name = NameNum
    /\ idx > 1
    /\ Has(NameNum) /\ IsNullList(form[NameNum])
    /\ dst0[1] = NilPtr
    /\ dst0[2] = 10
    /\ dst = dst0

(***************************************************************************)
(* Properties of the field resolver's termination.                         *)
(***************************************************************************)
\* C29: field resolution comes to an end and returns a list for every
\* struct type, a type that embeds a pointer to itself, directly or
\* through another embedded type, as an exported anonymous field without
\* a name included: no call of loadJsonFields ends in a stack overflow,
\* which is how a walk without end ends.
C29_Returns == \A g \in Callers : pcs[g] # "overflow"

(***************************************************************************)
(* Properties of the cell after a failed conversion.                       *)
(***************************************************************************)
\* The number a run of digits stands for.
RECURSIVE ValueOf(_)
ValueOf(ds) ==
    IF ds = <<>> THEN 0
    ELSE ValueOf(SubSeq(ds, 1, Len(ds) - 1)) * 10 + DigitVal(ds[Len(ds)])

\* The number a base-10 text stands for.
NumberOf(s) == IF s[1] = "-" THEN 0 - ValueOf(Tail(s)) ELSE ValueOf(s)

\* The value of the kind nearest to a number.
NearestBound(n, t) ==
    IF n < MinInt(t) THEN MinInt(t)
    ELSE IF n > MaxInt(t) THEN MaxInt(t)
    ELSE n

\* The token after the sign a signed kind takes.
Unsigned(s, t) ==
    IF Kind(t) = "int" /\ s # <<>> /\ s[1] \in {"+", "-"} THEN Tail(s) ELSE s

\* The digits a text starts with.
RECURSIVE LeadingDigits(_)
LeadingDigits(s) ==
    IF s = <<>> \/ s[1] \notin digits THEN <<>>
    ELSE <<s[1]>> \o LeadingDigits(Tail(s))

\* The digits the token starts with are, alone, a number beyond those of
\* the kind's width.
DigitsExceed(s, t) ==
    ValueOf(LeadingDigits(Unsigned(s, t))) > Pow2(typeBits(t)) - 1

\* The bound of the kind on the side of the token's sign.
BoundOf(s, t) == IF s[1] = "-" THEN MinInt(t) ELSE MaxInt(t)

\* Parse by a built-in rule has returned an error.
BuiltinFailed == ppc = "done" /\ call = "Parse" /\ err # "nil"

====
